---- MODULE Spec2Model ----
(***************************************************************************)
(* Token-bucket rate limiter (synthetism/rate-limiter).                    *)
(*                                                                         *)
(* BucketData and the pure functions of src/src/bucket.ts, the blocking    *)
(* limiter RateLimiterSync (src/src/rate-limiter.unit.ts) over its         *)
(* SyncMemoryStorage, and the suspending limiter RateLimiter               *)
(* (src/unnamed/part_000) over its MemoryStorage, whose operations are     *)
(* split at their awaits.                                                  *)
(*                                                                         *)
(* JavaScript numbers are modelled as exact rationals <<n, d>> (d > 0,     *)
(* lowest terms): tokens and refillRate are fractions, timestamps and      *)
(* capacities are integers.  Date.now() is the variable now; all calls of  *)
(* Date.now() made inside one uninterrupted run of code read the same      *)
(* millisecond.                                                            *)
(***************************************************************************)
EXTENDS Integers, Sequences, FiniteSets, TLC

(* ------------------------------ bounds -------------------------------- *)
MaxRequests == 2
MaxWindow == 3
MaxBurst == 1
MaxTime == 3
AsyncMaxTime == 1

(* ----------------------------- rationals ------------------------------ *)
RECURSIVE GCD(_, _)
GCD(a, b) == IF b = 0 THEN a ELSE GCD(b, a % b)

Abs(n) == IF n < 0 THEN 0 - n ELSE n

\* n / d in lowest terms, d > 0
Rat(n, d) ==
  LET g == GCD(Abs(n), d)
  IN  <<n \div g, d \div g>>

Num(q) == q[1]
Den(q) == q[2]
FromInt(n) == <<n, 1>>
RAdd(p, q) == Rat(Num(p) * Den(q) + Num(q) * Den(p), Den(p) * Den(q))
RSub(p, q) == Rat(Num(p) * Den(q) - Num(q) * Den(p), Den(p) * Den(q))
RMul(p, q) == Rat(Num(p) * Num(q), Den(p) * Den(q))
\* p / q for q > 0
RDiv(p, q) == Rat(Num(p) * Den(q), Den(p) * Num(q))
RLeq(p, q) == Num(p) * Den(q) <= Num(q) * Den(p)
RLt(p, q) == Num(p) * Den(q) < Num(q) * Den(p)
RMin(p, q) == IF RLeq(p, q) THEN p ELSE q
\* x / 0 for x > 0, as RDiv yields it
Infinity == <<1, 0>>
\* Math.floor and Math.ceil; Math.ceil(Infinity) is Infinity
Floor(q) == Num(q) \div Den(q)
Ceil(q) == IF Den(q) = 0 THEN q ELSE 0 - ((0 - Num(q)) \div Den(q))

(* ------------------------ bucket.ts: BucketData ----------------------- *)
\* retryAfter of an allowed consume: the field is absent (undefined)
undefined == 0 - 1

\* what storage.get yields for a missing key
null ==
  [tokens |-> FromInt(0), capacity |-> 0, burstCapacity |-> 0,
   lastRefill |-> 0, window |-> 0, refillRate |-> FromInt(0)]

\* a variant of createBucket that forgets the burst allowance in the initial
\* token count; creation must be told from it
createBucketNoBurst(capacity, window, burst, t) ==
  [tokens |-> FromInt(capacity),
   capacity |-> capacity,
   burstCapacity |-> capacity + burst,
   lastRefill |-> t,
   window |-> window,
   refillRate |-> Rat(capacity, window)]

createBucket(capacity, window, burst, t) ==
  [tokens |-> FromInt(capacity + burst),
   capacity |-> capacity,
   burstCapacity |-> capacity + burst,
   lastRefill |-> t,
   window |-> window,
   refillRate |-> Rat(capacity, window)]

\* a variant of refillBucket without the full-window branch: refill is
\* always gradual
refillBucketGradual(bucket, t) ==
  LET timePassed == t - bucket.lastRefill
      tokensToAdd == RMul(FromInt(timePassed), bucket.refillRate)
  IN  [bucket EXCEPT
         !.tokens = RMin(FromInt(bucket.burstCapacity),
                         RAdd(bucket.tokens, tokensToAdd)),
         !.lastRefill = t]

\* a variant of refillBucket whose gradual refill forgets Math.min
refillBucketUncapped(bucket, t) ==
  LET timePassed == t - bucket.lastRefill
  IN  IF timePassed >= bucket.window
      THEN [bucket EXCEPT !.tokens = FromInt(bucket.burstCapacity),
                          !.lastRefill = t]
      ELSE LET tokensToAdd == RMul(FromInt(timePassed), bucket.refillRate)
           IN  [bucket EXCEPT
                  !.tokens = RAdd(bucket.tokens, tokensToAdd),
                  !.lastRefill = t]

\* a variant of refillBucket that stops at capacity instead of burstCapacity
refillBucketToCapacity(bucket, t) ==
  LET timePassed == t - bucket.lastRefill
  IN  IF timePassed >= bucket.window
      THEN [bucket EXCEPT !.tokens = FromInt(bucket.capacity),
                          !.lastRefill = t]
      ELSE LET tokensToAdd == RMul(FromInt(timePassed), bucket.refillRate)
           IN  [bucket EXCEPT
                  !.tokens = RMin(FromInt(bucket.capacity),
                                  RAdd(bucket.tokens, tokensToAdd)),
                  !.lastRefill = t]

\* a variant of refillBucket whose full refill waits for more than a window
refillBucketLate(bucket, t) ==
  LET timePassed == t - bucket.lastRefill
  IN  IF timePassed > bucket.window
      THEN [bucket EXCEPT !.tokens = FromInt(bucket.burstCapacity),
                          !.lastRefill = t]
      ELSE LET tokensToAdd == RMul(FromInt(timePassed), bucket.refillRate)
           IN  [bucket EXCEPT
                  !.tokens = RMin(FromInt(bucket.burstCapacity),
                                  RAdd(bucket.tokens, tokensToAdd)),
                  !.lastRefill = t]

refillBucket(bucket, t) ==
  LET timePassed == t - bucket.lastRefill
  IN  IF timePassed >= bucket.window
      THEN [bucket EXCEPT !.tokens = FromInt(bucket.burstCapacity),
                          !.lastRefill = t]
      ELSE LET tokensToAdd == RMul(FromInt(timePassed), bucket.refillRate)
           IN  [bucket EXCEPT
                  !.tokens = RMin(FromInt(bucket.burstCapacity),
                                  RAdd(bucket.tokens, tokensToAdd)),
                  !.lastRefill = t]

\* a variant of consumeToken that rounds the wait down (Math.floor)
consumeTokenFloorWait(bucket, t) ==
  LET refilled == refillBucket(bucket, t)
  IN  IF RLeq(FromInt(1), refilled.tokens)
      THEN LET updatedBucket ==
                 [refilled EXCEPT !.tokens = RSub(refilled.tokens, FromInt(1))]
           IN  [bucket |-> updatedBucket,
                result |-> [allowed |-> TRUE,
                            remaining |-> Floor(updatedBucket.tokens),
                            resetTime |-> refilled.lastRefill + refilled.window,
                            retryAfter |-> undefined]]
      ELSE LET timeToNextToken ==
                 Floor(RDiv(RSub(FromInt(1), refilled.tokens), refilled.refillRate))
           IN  [bucket |-> refilled,
                result |-> [allowed |-> FALSE,
                            remaining |-> 0,
                            resetTime |-> refilled.lastRefill + refilled.window,
                            retryAfter |-> timeToNextToken]]

\* a variant of consumeToken that admits on any positive token count
\* (tokens > 0 instead of tokens >= 1)
consumeTokenAnyToken(bucket, t) ==
  LET refilled == refillBucket(bucket, t)
  IN  IF RLt(FromInt(0), refilled.tokens)
      THEN LET updatedBucket ==
                 [refilled EXCEPT !.tokens = RSub(refilled.tokens, FromInt(1))]
           IN  [bucket |-> updatedBucket,
                result |-> [allowed |-> TRUE,
                            remaining |-> Floor(updatedBucket.tokens),
                            resetTime |-> refilled.lastRefill + refilled.window,
                            retryAfter |-> undefined]]
      ELSE LET timeToNextToken ==
                 Ceil(RDiv(RSub(FromInt(1), refilled.tokens), refilled.refillRate))
           IN  [bucket |-> refilled,
                result |-> [allowed |-> FALSE,
                            remaining |-> 0,
                            resetTime |-> refilled.lastRefill + refilled.window,
                            retryAfter |-> timeToNextToken]]

\* a variant of consumeToken whose resetTime counts from the lastRefill of
\* the bucket it was given
consumeTokenStaleReset(bucket, t) ==
  LET refilled == refillBucket(bucket, t)
  IN  IF RLeq(FromInt(1), refilled.tokens)
      THEN LET updatedBucket ==
                 [refilled EXCEPT !.tokens = RSub(refilled.tokens, FromInt(1))]
           IN  [bucket |-> updatedBucket,
                result |-> [allowed |-> TRUE,
                            remaining |-> Floor(updatedBucket.tokens),
                            resetTime |-> bucket.lastRefill + bucket.window,
                            retryAfter |-> undefined]]
      ELSE LET timeToNextToken ==
                 Ceil(RDiv(RSub(FromInt(1), refilled.tokens), refilled.refillRate))
           IN  [bucket |-> refilled,
                result |-> [allowed |-> FALSE,
                            remaining |-> 0,
                            resetTime |-> bucket.lastRefill + bucket.window,
                            retryAfter |-> timeToNextToken]]

\* a variant of consumeToken that asks for one millisecond more than needed
consumeTokenLongWait(bucket, t) ==
  LET refilled == refillBucket(bucket, t)
  IN  IF RLeq(FromInt(1), refilled.tokens)
      THEN LET updatedBucket ==
                 [refilled EXCEPT !.tokens = RSub(refilled.tokens, FromInt(1))]
           IN  [bucket |-> updatedBucket,
                result |-> [allowed |-> TRUE,
                            remaining |-> Floor(updatedBucket.tokens),
                            resetTime |-> refilled.lastRefill + refilled.window,
                            retryAfter |-> undefined]]
      ELSE LET timeToNextToken ==
                 Ceil(RDiv(RSub(FromInt(1), refilled.tokens), refilled.refillRate)) + 1
           IN  [bucket |-> refilled,
                result |-> [allowed |-> FALSE,
                            remaining |-> 0,
                            resetTime |-> refilled.lastRefill + refilled.window,
                            retryAfter |-> timeToNextToken]]

consumeToken(bucket, t) ==
  LET refilled == refillBucket(bucket, t)
  IN  IF RLeq(FromInt(1), refilled.tokens)
      THEN LET updatedBucket ==
                 [refilled EXCEPT !.tokens = RSub(refilled.tokens, FromInt(1))]
           IN  [bucket |-> updatedBucket,
                result |-> [allowed |-> TRUE,
                            remaining |-> Floor(updatedBucket.tokens),
                            resetTime |-> refilled.lastRefill + refilled.window,
                            retryAfter |-> undefined]]
      ELSE LET timeToNextToken ==
                 Ceil(RDiv(RSub(FromInt(1), refilled.tokens), refilled.refillRate))
           IN  [bucket |-> refilled,
                result |-> [allowed |-> FALSE,
                            remaining |-> 0,
                            resetTime |-> refilled.lastRefill + refilled.window,
                            retryAfter |-> timeToNextToken]]

getBucketInfo(bucket, t) ==
  LET refilled == refillBucket(bucket, t)
  IN  [tokens |-> Floor(refilled.tokens),
       capacity |-> refilled.capacity,
       lastRefill |-> refilled.lastRefill,
       nextRefill |-> refilled.lastRefill + refilled.window]

(* ----------------------- contexts and keys ---------------------------- *)
\* "" stands for a field that is absent or empty (both are falsy)
ClientIds == {"", "default", "a"}
Resources == {""}
Contexts == [clientId : ClientIds, resource : Resources]

\* a variant of the key generator that leaves the resource out
keyGeneratorClientOnly(ctx) ==
  (IF ctx.clientId = "" THEN "default" ELSE ctx.clientId) \o ":" \o "global"

\* the default keyGenerator of create()
keyGenerator(ctx) ==
  (IF ctx.clientId = "" THEN "default" ELSE ctx.clientId)
    \o ":" \o
  (IF ctx.resource = "" THEN "global" ELSE ctx.resource)

Keys == {keyGenerator(ctx) : ctx \in Contexts}

(* ------------------ storage: a Map from key to value ------------------ *)
EmptyMap == [k \in {} |-> null]

StorageGet(store, key) == IF key \in DOMAIN store THEN store[key] ELSE null

\* a variant of set that keeps the value a key already has
StorageSetIfAbsent(store, key, value) ==
  [k \in DOMAIN store \cup {key} |-> IF k \in DOMAIN store THEN store[k] ELSE value]

\* a variant of set that ignores the key: one slot shared by all keys
StorageSetShared(store, key, value) ==
  [k \in DOMAIN store \cup {key} |-> value]

StorageSet(store, key, value) ==
  [k \in DOMAIN store \cup {key} |-> IF k = key THEN value ELSE store[k]]

\* a variant of delete that removes nothing
StorageDeleteNothing(store, key) == store

StorageDelete(store, key) == [k \in DOMAIN store \ {key} |-> store[k]]

StorageClear(store) == EmptyMap

(* ------------------------------ state --------------------------------- *)
VARIABLES
  cfg,       \* props of the limiters: requests, window, burst
  now,       \* Date.now()
  syncData,  \* SyncMemoryStorage.data of the RateLimiterSync
  data,      \* MemoryStorage.data of the RateLimiter
  calls,     \* the calls in progress on the RateLimiter, one per caller
  watch,     \* the key whose calls are recorded and the part of obs that is
             \* recorded for it (fixed by Init)
  last,      \* the call just made on the RateLimiterSync and what it returned
  obs,       \* what the calls on the watched key have shown so far
  hasClear,  \* whether the storage of the RateLimiterSync has clear()
  outcome,   \* how the last call made on a RateLimiterSync over a custom
             \* storage ended
  state,     \* what the StateAsync of the AsyncRateLimiter holds: buckets
             \* and stats
  runs,      \* the calls in progress on the AsyncRateLimiter, one per caller
  started    \* the calls made on the AsyncRateLimiter so far

\* the state of a RateLimiterSync over a storage passed in config.storage
custom == <<hasClear, outcome>>

\* the state of an AsyncRateLimiter and of its callers
unit == <<state, runs, started>>

vars == <<cfg, now, syncData, data, calls, watch, last, obs, custom, unit>>

\* the concurrent callers of the RateLimiter
Procs == {1, 2}

NoResult ==
  [allowed |-> FALSE, remaining |-> 0, resetTime |-> 0,
   retryAfter |-> undefined, key |-> ""]

NoStats ==
  [totalRequests |-> 0, allowedRequests |-> 0, rejectedRequests |-> 0,
   totalKeys |-> 0, avgResponseTime |-> 0, bucketsCreated |-> 0]

\* no error was thrown
NoError == "none"

\* op: the method called ("create": RateLimiterSync.create); failAt: which of
\* the storage calls of the method throws (0: none); threw, error: whether the
\* method threw and what; storageCalls: the storage calls it made; res,
\* stats: what it returned; pre: the stored bucket of key before the call;
\* before: the storage before a cleanup; ctx: the context passed, where it
\* is recorded
NoOutcome ==
  [op |-> "none", key |-> "", failAt |-> 0, threw |-> FALSE, error |-> NoError,
   storageCalls |-> 0, res |-> NoResult, stats |-> NoStats, pre |-> null,
   before |-> << >>, ctx |-> [clientId |-> "", resource |-> ""]]

\* what bucket.consume() returns when nothing was consumed yet
NoConsume ==
  [allowed |-> FALSE, remaining |-> 0, resetTime |-> 0, retryAfter |-> undefined]

\* initialState of the StateAsync made by AsyncRateLimiter.create; created
\* is Date.now() at creation, the start of time
NoState ==
  [buckets |-> EmptyMap,
   stats |-> [totalRequests |-> 0, allowedRequests |-> 0, blockedRequests |-> 0,
              activeBuckets |-> 0, allowRate |-> FromInt(0), created |-> 0]]

\* a caller of the AsyncRateLimiter.  fn: the method it called; pc: the await
\* it is suspended at (idle: no call yet); key, maxRetries: the key of the
\* context and the retry limit it passed; attempts: the local of
\* limitWithRetry; result: what the last bucket.consume() of the call
\* returned, at time at; wakeAt: when the timer of sleep fires; consumes,
\* ran, slept: how many times the call has consumed, invoked the operation
\* and slept; end, error, thrown, value: how the call ended (returned or
\* threw), the name of the error, the result the error carries and the value
\* returned; cancelled: the caller has asked for the call to be cancelled
NoRun ==
  [fn |-> "none", pc |-> "idle", key |-> "", maxRetries |-> 0, attempts |-> 0,
   result |-> NoConsume, at |-> 0, wakeAt |-> 0,
   consumes |-> 0, ran |-> 0, slept |-> 0,
   end |-> "none", error |-> NoError, thrown |-> NoConsume, value |-> "",
   cancelled |-> FALSE]

\* obs, each part recorded under its own watch.what, for the key watch.key:
\* "streak"  streak: consume calls on the key since its bucket was created,
\*           while no time has elapsed since that creation (else undefined)
\* "owed"    owed: earliest t + retryAfter of the denials at t since the
\*           last allowed consume on the key (undefined when there is none)
\* "check"   chkSame: a check on the key was made in this millisecond and no
\*           consume, reset or cleanup since; chkAllowed, chkRemaining: what
\*           it returned; chkRun: only check calls were made on the key
\*           since chkPre, its stored bucket before the first of them
\* "life"    life: never (no check, consume or stats on the key yet) or
\*           other
\* "reset"   life: reset (reset(key) was the last change to the key), reborn
\*           (bucket created by the first access after a reset) or other;
\*           streak is recorded too
\* "wait"    owed; waitUntil: earliest t + retryAfter of the denials at t
\*           since the last allowed consume, reset of the key or cleanup,
\*           and deniedAt: the time of the earliest of those denials
\* "due"     due: earliest resetTime of the check and consume results on
\*           the key since the last allowed consume, its own result
\*           included (undefined when there is none)
\* "stats"   streak, with the stats(key) calls recorded in last
\* "rate"    perMs: at each millisecond, the allowed consume calls made on the
\*           key in it since the last reset of the key or cleanup
\* "tally"   (AsyncRateLimiter) allowedResults: the allowed results of the
\*           checkLimit calls since creation or the last reset(); keyReset:
\*           reset(key) was called since the last return of a checkLimit
\* "shared"  streak, and shared: consume calls were made on the bucket of
\*           the key through an instance created before the present one;
\*           instances: the instances created over the storage so far
\* "async"   admitted: consume calls of the RateLimiter that returned
\*           allowed; clean: no time has elapsed and no reset or cleanup was
\*           called since the start
NoObs ==
  [streak |-> undefined, owed |-> undefined,
   chkSame |-> FALSE, chkAllowed |-> FALSE, chkRemaining |-> 0,
   chkRun |-> FALSE, chkPre |-> null, life |-> "other",
   admitted |-> 0, clean |-> FALSE, shared |-> FALSE, instances |-> 1,
   due |-> undefined, deniedAt |-> undefined,
   waitUntil |-> undefined, allowedResults |-> 0, keyReset |-> FALSE,
   perMs |-> [t \in 0..MaxTime |-> 0]]

\* key: the key of the call; absent, created, size: whether the key was
\* absent from storage before the call, the bucket getBucket created and
\* stored (null: none) and the number of stored keys before the call,
\* recorded under watch.what = "life", where res is not; g: obs before the
\* call
NoCall ==
  [op |-> "none", key |-> "", res |-> NoResult, stats |-> NoStats,
   absent |-> FALSE, created |-> null, size |-> 0, g |-> NoObs]

\* the calls recorded in last under each watch.what
Recorded(what) ==
  CASE what \in {"streak", "owed"} -> {"consume"}
    [] what = "shared" -> {"check", "consume"}
    [] what = "stats" -> {"consume", "stats"}
    [] what = "due" -> {"check", "consume"}
    [] what = "wait" -> {"consume"}
    [] what = "check" -> {"check", "consume"}
    [] what = "life" -> {"check", "consume", "stats"}
    [] what = "reset" -> {"check", "consume", "reset"}
    [] what = "dual" -> {"check", "consume", "stats", "reset", "cleanup"}
    [] OTHER -> {}

\* a caller of the RateLimiter: pc is idle, create (getBucket found no bucket
\* and is about to create one), have (getBucket has its bucket), done (the
\* result is ready); bucket is what the call read or created
Idle ==
  [pc |-> "idle", op |-> "none", key |-> "", bucket |-> null,
   res |-> NoResult, stats |-> NoStats]

BurstCapacity == cfg.requests + cfg.burst

\* the keys a run may watch: any key where calls on one key are recorded
WatchedKeys(what) ==
  IF what \in {"none", "dual", "async"}
  THEN {keyGenerator([clientId |-> "", resource |-> ""])}
  ELSE Keys

Configs == [requests : 1..MaxRequests, window : 1..MaxWindow, burst : 0..MaxBurst]

InitWatching(what) ==
  /\ cfg \in Configs
  /\ now = 0
  /\ syncData = EmptyMap
  /\ data = EmptyMap
  /\ calls = [p \in Procs |-> Idle]
  /\ watch \in [what : {what}, key : WatchedKeys(what)]
  /\ last = NoCall
  /\ obs = [NoObs EXCEPT !.life = IF what = "life" THEN "never" ELSE @,
                         !.clean = what = "async"]
  /\ hasClear = TRUE
  /\ outcome = NoOutcome
  /\ state = NoState
  /\ runs = [p \in Procs |-> NoRun]
  /\ started = 0

Init == InitWatching("none")

(* --------------------- RateLimiterSync (blocking) --------------------- *)
\* a variant of getBucket that keeps only a bucket made with its own props
SyncGetBucketOwn(store, key, t) ==
  LET bucket == StorageGet(store, key)
      newBucket == createBucket(cfg.requests, cfg.window, cfg.burst, t)
  IN  IF bucket = null \/ bucket.capacity # cfg.requests
         \/ bucket.burstCapacity # cfg.requests + cfg.burst
         \/ bucket.window # cfg.window
      THEN [bucket |-> newBucket, data |-> StorageSet(store, key, newBucket),
            created |-> newBucket]
      ELSE [bucket |-> bucket, data |-> store, created |-> null]

\* getBucket: the bucket of key, created and stored when the key is absent
SyncGetBucket(store, key, t) ==
  LET bucket == StorageGet(store, key)
  IN  IF bucket = null
      THEN LET newBucket == createBucket(cfg.requests, cfg.window, cfg.burst, t)
           IN  [bucket |-> newBucket, data |-> StorageSet(store, key, newBucket),
                created |-> newBucket]
      ELSE [bucket |-> bucket, data |-> store, created |-> null]

SyncSetBucket(store, key, bucket) == StorageSet(store, key, bucket)

\* a variant of check()'s result that decides on the unfloored token count
CheckResultUnfloored(bucket, key, t) ==
  LET info == getBucketInfo(bucket, t)
      tokens == refillBucket(bucket, t).tokens
  IN  [allowed |-> RLt(FromInt(0), tokens),
       remaining |-> info.tokens,
       resetTime |-> info.nextRefill,
       retryAfter |-> IF RLeq(tokens, FromInt(0)) THEN info.nextRefill - t ELSE 0,
       key |-> key]

\* the result check() builds from getBucketInfo
CheckResult(bucket, key, t) ==
  LET info == getBucketInfo(bucket, t)
  IN  [allowed |-> info.tokens > 0,
       remaining |-> info.tokens,
       resetTime |-> info.nextRefill,
       retryAfter |-> IF info.tokens = 0 THEN info.nextRefill - t ELSE 0,
       key |-> key]

\* the result consume() builds from consumeToken
ConsumeResult(consumed, key) ==
  [allowed |-> consumed.result.allowed,
   remaining |-> consumed.result.remaining,
   resetTime |-> consumed.result.resetTime,
   retryAfter |-> consumed.result.retryAfter,
   key |-> key]

\* a variant of stats() that counts from requests, without the burst
StatsResultNoBurst(bucket, t) ==
  LET info == getBucketInfo(bucket, t)
      initialTokens == cfg.requests
  IN  [totalRequests |-> initialTokens - info.tokens,
       allowedRequests |-> initialTokens - info.tokens,
       rejectedRequests |-> 0,
       totalKeys |-> 1,
       avgResponseTime |-> 0,
       bucketsCreated |-> 1]

\* the single-key branch of stats()
StatsResult(bucket, t) ==
  LET info == getBucketInfo(bucket, t)
      initialTokens == cfg.requests + cfg.burst
  IN  [totalRequests |-> initialTokens - info.tokens,
       allowedRequests |-> initialTokens - info.tokens,
       rejectedRequests |-> 0,
       totalKeys |-> 1,
       avgResponseTime |-> 0,
       bucketsCreated |-> 1]

\* a variant of check that stores the refilled bucket
SyncDoCheckPersist(store, ctx, t) ==
  LET key == keyGenerator(ctx)
      got == SyncGetBucket(store, key, t)
  IN  [data |-> SyncSetBucket(got.data, key, refillBucket(got.bucket, t)),
       key |-> key, res |-> CheckResult(got.bucket, key, t),
       stats |-> NoStats, created |-> got.created]

\* a variant of check that takes the token it reports
SyncDoCheckDebit(store, ctx, t) ==
  LET key == keyGenerator(ctx)
      got == SyncGetBucket(store, key, t)
      consumeResult == consumeToken(got.bucket, t)
  IN  [data |-> IF consumeResult.result.allowed
                THEN SyncSetBucket(got.data, key, consumeResult.bucket)
                ELSE got.data,
       key |-> key, res |-> CheckResult(got.bucket, key, t),
       stats |-> NoStats, created |-> got.created]

\* a variant of consume that keeps the stamp of the bucket it read
SyncDoConsumeKeepStamp(store, ctx, t) ==
  LET key == keyGenerator(ctx)
      got == SyncGetBucket(store, key, t)
      consumeResult == consumeToken(got.bucket, t)
  IN  [data |-> IF consumeResult.result.allowed
                THEN SyncSetBucket(got.data, key,
                                   [consumeResult.bucket EXCEPT
                                      !.lastRefill = got.bucket.lastRefill])
                ELSE got.data,
       key |-> key, res |-> ConsumeResult(consumeResult, key),
       stats |-> NoStats, created |-> got.created]

\* a variant of consume that stores the refilled bucket of a denied call too
SyncDoConsumePersist(store, ctx, t) ==
  LET key == keyGenerator(ctx)
      got == SyncGetBucket(store, key, t)
      consumeResult == consumeToken(got.bucket, t)
  IN  [data |-> SyncSetBucket(got.data, key, consumeResult.bucket),
       key |-> key, res |-> ConsumeResult(consumeResult, key),
       stats |-> NoStats, created |-> got.created]

\* the methods of RateLimiterSync on the storage store at time t: the storage
\* they leave, what they return and the bucket getBucket created
SyncDoCheck(store, ctx, t) ==
  LET key == keyGenerator(ctx)
      got == SyncGetBucket(store, key, t)
  IN  [data |-> got.data, key |-> key, res |-> CheckResult(got.bucket, key, t),
       stats |-> NoStats, created |-> got.created]

SyncDoConsume(store, ctx, t) ==
  LET key == keyGenerator(ctx)
      got == SyncGetBucket(store, key, t)
      consumeResult == consumeToken(got.bucket, t)
  IN  [data |-> IF consumeResult.result.allowed
                THEN SyncSetBucket(got.data, key, consumeResult.bucket)
                ELSE got.data,
       key |-> key, res |-> ConsumeResult(consumeResult, key),
       stats |-> NoStats, created |-> got.created]

\* stats(key) with a key; stats() and stats("") take the global branch
SyncDoStats(store, key, t) ==
  IF key # ""
  THEN LET got == SyncGetBucket(store, key, t)
       IN  [data |-> got.data, key |-> key, res |-> NoResult,
            stats |-> StatsResult(got.bucket, t), created |-> got.created]
  ELSE [data |-> store, key |-> key, res |-> NoResult, stats |-> NoStats,
        created |-> null]

SyncDoReset(store, key) ==
  [data |-> StorageDelete(store, key), key |-> key, res |-> NoResult,
   stats |-> NoStats, created |-> null]

\* SyncMemoryStorage has clear()
SyncDoCleanup(store) ==
  [data |-> StorageClear(store), key |-> "", res |-> NoResult,
   stats |-> NoStats, created |-> null]

Min(a, b) == IF a <= b THEN a ELSE b

\* obs after a call op on the watched key that returned res; created: the
\* bucket getBucket created (null: none); pre: the stored bucket before
Observe(o, op, res, created, pre) ==
  LET what == watch.what
      access == op \in {"check", "consume", "stats"}
      life ==
        CASE what = "life" /\ access -> "other"
          [] what = "reset" /\ op = "reset" -> "reset"
          [] what = "reset" /\ access ->
               IF created # null /\ o.life = "reset" THEN "reborn" ELSE o.life
          [] what = "reset" /\ op = "cleanup" ->
               IF o.life = "reset" THEN o.life ELSE "other"
          [] OTHER -> o.life
      \* the call found no bucket: under "shared", as the storage shows it
      fresh == IF what = "shared" THEN pre = null ELSE created # null
      streak ==
        CASE op \in {"check", "stats"} -> IF fresh THEN 0 ELSE o.streak
          [] op = "consume" -> IF fresh THEN 1
                               ELSE IF o.streak = undefined THEN undefined
                               ELSE Min(o.streak + 1,
                                        IF what = "shared"
                                        THEN MaxRequests + MaxBurst + 2
                                        ELSE BurstCapacity + 2)
          [] OTHER -> undefined
      chkSame == what = "check" /\ (op = "check" \/ (op = "stats" /\ o.chkSame))
  IN  [o EXCEPT
        !.streak = IF what \in {"streak", "shared", "stats"}
                      \/ (what = "reset" /\ life = "reborn")
                   THEN streak ELSE undefined,
        !.owed = IF what \notin {"owed", "wait"} \/ op # "consume" THEN o.owed
                 ELSE IF res.allowed THEN undefined
                 ELSE IF o.owed = undefined THEN now + res.retryAfter
                 ELSE Min(o.owed, now + res.retryAfter),
        !.chkSame = chkSame,
        !.chkAllowed = IF what = "check" /\ op = "check" THEN res.allowed
                       ELSE chkSame /\ o.chkAllowed,
        !.chkRemaining = IF what = "check" /\ op = "check" THEN res.remaining
                         ELSE IF chkSame THEN o.chkRemaining ELSE 0,
        !.chkRun = what = "check" /\ op = "check",
        !.chkPre = IF what = "check" /\ op = "check"
                   THEN (IF o.chkRun THEN o.chkPre ELSE pre)
                   ELSE null,
        !.life = life,
        !.shared = o.shared /\ access /\ ~fresh,
        !.deniedAt = IF what # "wait" THEN o.deniedAt
                     ELSE IF op \in {"reset", "cleanup"} THEN undefined
                     ELSE IF op # "consume" THEN o.deniedAt
                     ELSE IF res.allowed THEN undefined
                     ELSE IF o.deniedAt = undefined THEN now
                     ELSE o.deniedAt,
        !.waitUntil = IF what # "wait" THEN o.waitUntil
                      ELSE IF op \in {"reset", "cleanup"} THEN undefined
                      ELSE IF op # "consume" THEN o.waitUntil
                      ELSE IF res.allowed THEN undefined
                      ELSE IF o.waitUntil = undefined THEN now + res.retryAfter
                      ELSE Min(o.waitUntil, now + res.retryAfter),
        !.perMs = IF what # "rate" THEN o.perMs
                  ELSE IF op \in {"reset", "cleanup"} THEN NoObs.perMs
                  ELSE IF op = "consume" /\ res.allowed
                       THEN [o.perMs EXCEPT ![now] = @ + 1]
                  ELSE o.perMs,
        !.due = IF what # "due" \/ op \notin {"check", "consume"} THEN o.due
                ELSE IF op = "consume" /\ res.allowed THEN res.resetTime
                ELSE IF o.due = undefined THEN res.resetTime
                ELSE Min(o.due, res.resetTime)]

\* the call op, whose outcome is out, is made on the RateLimiterSync
SyncApply(op, out) ==
  LET pre == StorageGet(syncData, out.key)
      life == watch.what = "life"
  IN  /\ syncData' = out.data
      /\ last' = IF (out.key = watch.key \/ watch.what = "dual")
                    /\ op \in Recorded(watch.what)
                 THEN [op |-> op,
                       key |-> out.key,
                       res |-> IF life THEN NoResult ELSE out.res,
                       stats |-> IF life THEN NoStats ELSE out.stats,
                       absent |-> life /\ pre = null,
                       created |-> IF life THEN out.created ELSE null,
                       size |-> IF life THEN Cardinality(DOMAIN syncData) ELSE 0,
                       g |-> obs]
                 ELSE NoCall
      /\ obs' = IF out.key = watch.key \/ op = "cleanup"
                THEN Observe(obs, op, out.res, out.created, pre)
                ELSE obs

SyncCheck(ctx) ==
  /\ SyncApply("check", SyncDoCheck(syncData, ctx, now))
  /\ UNCHANGED <<cfg, now, watch, data, calls, custom, unit>>

SyncConsume(ctx) ==
  /\ SyncApply("consume", SyncDoConsume(syncData, ctx, now))
  /\ UNCHANGED <<cfg, now, watch, data, calls, custom, unit>>

SyncStats(key) ==
  /\ SyncApply("stats", SyncDoStats(syncData, key, now))
  /\ UNCHANGED <<cfg, now, watch, data, calls, custom, unit>>

SyncReset(key) ==
  /\ SyncApply("reset", SyncDoReset(syncData, key))
  /\ UNCHANGED <<cfg, now, watch, data, calls, custom, unit>>

SyncCleanup ==
  /\ SyncApply("cleanup", SyncDoCleanup(syncData))
  /\ UNCHANGED <<cfg, now, watch, data, calls, custom, unit>>

\* one millisecond passes
Tick ==
  /\ now < MaxTime
  /\ now' = now + 1
  /\ last' = NoCall
  /\ obs' = [obs EXCEPT !.streak = undefined, !.chkSame = FALSE,
                        !.chkAllowed = FALSE, !.chkRemaining = 0,
                        !.clean = FALSE, !.shared = FALSE]
  /\ UNCHANGED <<cfg, syncData, data, calls, watch, custom, unit>>

Next ==
  \/ \E ctx \in Contexts : SyncCheck(ctx)
  \/ \E ctx \in Contexts : SyncConsume(ctx)
  \/ \E key \in Keys \cup {""} : SyncStats(key)
  \/ \E key \in Keys : SyncReset(key)
  \/ SyncCleanup
  \/ Tick

Spec == Init /\ [][Next]_vars

SpecStreak == InitWatching("streak") /\ [][Next]_vars
SpecOwed == InitWatching("owed") /\ [][Next]_vars
SpecCheck == InitWatching("check") /\ [][Next]_vars
SpecLife == InitWatching("life") /\ [][Next]_vars
SpecReset == InitWatching("reset") /\ [][Next]_vars
SpecStats == InitWatching("stats") /\ [][Next]_vars
SpecDue == InitWatching("due") /\ [][Next]_vars
SpecWait == InitWatching("wait") /\ [][Next]_vars
SpecRate == InitWatching("rate") /\ [][Next]_vars

(* ---------------------- RateLimiter (suspending) ---------------------- *)
\* Each method of the RateLimiter runs up to its next await in one step.
\* MemoryStorage's get, set, delete and clear are async functions without an
\* await of their own: the Map is read or written when they are called, and
\* the caller resumes in a later step.

\* caller p reads the bucket of key: getBucket up to `await storage.get`
StartGet(p, op, key) ==
  LET bucket == StorageGet(data, key)
  IN  /\ calls[p].pc = "idle"
      /\ calls' = [calls EXCEPT ![p] =
                     [Idle EXCEPT !.pc = IF bucket = null THEN "create" ELSE "have",
                                  !.op = op, !.key = key, !.bucket = bucket]]
      /\ data' = data

\* check(context) is called by p
StartCheck(p, ctx) == StartGet(p, "check", keyGenerator(ctx))

\* consume(context) is called by p
StartConsume(p, ctx) == StartGet(p, "consume", keyGenerator(ctx))

\* stats(key) is called by p; stats() and stats("") take the global branch
StartStats(p, key) ==
  IF key # ""
  THEN StartGet(p, "stats", key)
  ELSE /\ calls[p].pc = "idle"
       /\ calls' = [calls EXCEPT ![p] = [Idle EXCEPT !.pc = "done", !.op = "stats"]]
       /\ data' = data

\* reset(key) is called by p: up to `await storage.delete`
StartReset(p, key) ==
  /\ calls[p].pc = "idle"
  /\ data' = StorageDelete(data, key)
  /\ calls' = [calls EXCEPT ![p] =
                 [Idle EXCEPT !.pc = "done", !.op = "reset", !.key = key]]

\* cleanup() is called by p: MemoryStorage has clear()
StartCleanup(p) ==
  /\ calls[p].pc = "idle"
  /\ data' = StorageClear(data)
  /\ calls' = [calls EXCEPT ![p] = [Idle EXCEPT !.pc = "done", !.op = "cleanup"]]

\* obs after a step of the RateLimiter
AsyncObserve(admit, dirty) ==
  IF watch.what = "async"
  THEN [obs EXCEPT !.admitted = IF admit THEN Min(@ + 1, BurstCapacity + 2) ELSE @,
                   !.clean = @ /\ ~dirty]
  ELSE obs

\* the concurrent callers make check, consume and reset calls on the watched
\* key
OnWatched(key) == key = watch.key

AsyncCheck(p, ctx) ==
  /\ OnWatched(keyGenerator(ctx))
  /\ StartCheck(p, ctx)
  /\ UNCHANGED <<cfg, now, syncData, watch, last, obs, custom, unit>>

AsyncConsume(p, ctx) ==
  /\ OnWatched(keyGenerator(ctx))
  /\ StartConsume(p, ctx)
  /\ UNCHANGED <<cfg, now, syncData, watch, last, obs, custom, unit>>

AsyncReset(p, key) ==
  /\ OnWatched(key)
  /\ StartReset(p, key)
  /\ obs' = AsyncObserve(FALSE, TRUE)
  /\ UNCHANGED <<cfg, now, syncData, watch, last, custom, unit>>

\* time passes while calls are in progress
AsyncTick ==
  /\ now < AsyncMaxTime
  /\ Tick

\* getBucket resumes after `await storage.get` returned no bucket: it creates
\* one and stores it, up to `await storage.set`
AsyncCreate(p) ==
  LET c == calls[p]
      newBucket == createBucket(cfg.requests, cfg.window, cfg.burst, now)
  IN  /\ c.pc = "create"
      /\ data' = StorageSet(data, c.key, newBucket)
      /\ calls' = [calls EXCEPT ![p] = [c EXCEPT !.pc = "have", !.bucket = newBucket]]
      /\ UNCHANGED <<cfg, now, syncData, watch, last, obs, custom, unit>>

\* check, consume or stats resumes with the bucket getBucket returned
AsyncResume(p) ==
  LET c == calls[p]
      consumeResult == consumeToken(c.bucket, now)
  IN  /\ c.pc = "have"
      /\ CASE c.op = "check" ->
                /\ calls' = [calls EXCEPT ![p] =
                               [c EXCEPT !.pc = "done",
                                         !.res = CheckResult(c.bucket, c.key, now)]]
                /\ data' = data
                /\ obs' = obs
           [] c.op = "consume" ->
                /\ calls' = [calls EXCEPT ![p] =
                               [c EXCEPT !.pc = "done",
                                         !.res = ConsumeResult(consumeResult, c.key)]]
                /\ data' = IF consumeResult.result.allowed
                           THEN StorageSet(data, c.key, consumeResult.bucket)
                           ELSE data
                /\ obs' = AsyncObserve(consumeResult.result.allowed, FALSE)
           [] OTHER ->
                /\ calls' = [calls EXCEPT ![p] =
                               [c EXCEPT !.pc = "done",
                                         !.stats = StatsResult(c.bucket, now)]]
                /\ data' = data
                /\ obs' = obs
      /\ UNCHANGED <<cfg, now, syncData, watch, last, custom, unit>>

\* the call of p returns to its caller
AsyncReturn(p) ==
  /\ calls[p].pc = "done"
  /\ calls' = [calls EXCEPT ![p] = Idle]
  /\ UNCHANGED <<cfg, now, syncData, data, watch, last, obs, custom, unit>>

NextAsync ==
  \/ \E p \in Procs, ctx \in Contexts : AsyncCheck(p, ctx)
  \/ \E p \in Procs, ctx \in Contexts : AsyncConsume(p, ctx)
  \/ \E p \in Procs, key \in Keys : AsyncReset(p, key)
  \/ \E p \in Procs : AsyncCreate(p)
  \/ \E p \in Procs : AsyncResume(p)
  \/ \E p \in Procs : AsyncReturn(p)
  \/ AsyncTick

\* concurrent callers of one RateLimiter
SpecAsync == InitWatching("async") /\ [][NextAsync]_vars

(* ------------- both limiters, driven by the same calls ---------------- *)
\* The caller makes a call on the RateLimiterSync and the same call on the
\* RateLimiter, awaits the latter, and only then makes the next call or lets
\* time pass.
Quiet == \A p \in Procs : calls[p].pc = "idle"

DualCheck(ctx) ==
  /\ SyncApply("check", SyncDoCheck(syncData, ctx, now))
  /\ StartCheck(1, ctx)
  /\ UNCHANGED <<cfg, now, watch, custom, unit>>

DualConsume(ctx) ==
  /\ SyncApply("consume", SyncDoConsume(syncData, ctx, now))
  /\ StartConsume(1, ctx)
  /\ UNCHANGED <<cfg, now, watch, custom, unit>>

DualStats(key) ==
  /\ SyncApply("stats", SyncDoStats(syncData, key, now))
  /\ StartStats(1, key)
  /\ UNCHANGED <<cfg, now, watch, custom, unit>>

DualReset(key) ==
  /\ SyncApply("reset", SyncDoReset(syncData, key))
  /\ StartReset(1, key)
  /\ UNCHANGED <<cfg, now, watch, custom, unit>>

DualCleanup ==
  /\ SyncApply("cleanup", SyncDoCleanup(syncData))
  /\ StartCleanup(1)
  /\ UNCHANGED <<cfg, now, watch, custom, unit>>

\* the call on the RateLimiter returns; both results are dropped
DualReturn ==
  /\ calls[1].pc = "done"
  /\ calls' = [calls EXCEPT ![1] = Idle]
  /\ last' = NoCall
  /\ UNCHANGED <<cfg, now, syncData, data, watch, obs, custom, unit>>

DualTick ==
  /\ Quiet
  /\ now < MaxTime
  /\ now' = now + 1
  /\ UNCHANGED <<cfg, syncData, data, calls, watch, last, obs, custom, unit>>

NextDual ==
  \/ \E ctx \in Contexts : DualCheck(ctx)
  \/ \E ctx \in Contexts : DualConsume(ctx)
  \/ \E key \in Keys \cup {""} : DualStats(key)
  \/ \E key \in Keys : DualReset(key)
  \/ DualCleanup
  \/ AsyncCreate(1)
  \/ AsyncResume(1)
  \/ DualReturn
  \/ DualTick

SpecDual == InitWatching("dual") /\ [][NextDual]_vars

(* --------- RateLimiterSync over a storage given in config.storage ----- *)
\* The storage is an object of the caller: its get, set and delete may throw
\* and it may lack clear(). failAt is the storage call of the method that
\* throws (0: none throws); a call that throws changes nothing in storage.
\* The methods of RateLimiterSync hold no try/catch: what the storage throws
\* leaves the method at once.

\* the bound on failAt: no method makes more than three storage calls
MaxStorageCalls == 3

\* the time up to which calls are made on the limiter over a custom storage
CustomMaxTime == 1

\* the Error thrown by the storage method
StorageFailure(method) == "storage " \o method \o " failed"

\* TypeError of calling a method the storage does not have
NotAFunction == "TypeError: clear is not a function"

\* a variant of getBucket that takes a failed get for an absent key
CustomGetBucketFailOpen(store, key, t, failAt) ==
  LET bucket == IF failAt = 1 THEN null ELSE StorageGet(store, key)
      newBucket == createBucket(cfg.requests, cfg.window, cfg.burst, t)
  IN  IF bucket # null
      THEN [threw |-> FALSE, error |-> NoError, storageCalls |-> 1,
            bucket |-> bucket, data |-> store]
      ELSE IF failAt = 2
      THEN [threw |-> TRUE, error |-> StorageFailure("set"),
            storageCalls |-> 2, bucket |-> null, data |-> store]
      ELSE [threw |-> FALSE, error |-> NoError, storageCalls |-> 2,
            bucket |-> newBucket, data |-> StorageSet(store, key, newBucket)]

\* getBucket: get, then set when the key is absent
CustomGetBucket(store, key, t, failAt) ==
  IF failAt = 1
  THEN [threw |-> TRUE, error |-> StorageFailure("get"), storageCalls |-> 1,
        bucket |-> null, data |-> store]
  ELSE LET bucket == StorageGet(store, key)
           newBucket == createBucket(cfg.requests, cfg.window, cfg.burst, t)
       IN  IF bucket # null
           THEN [threw |-> FALSE, error |-> NoError, storageCalls |-> 1,
                 bucket |-> bucket, data |-> store]
           ELSE IF failAt = 2
           THEN [threw |-> TRUE, error |-> StorageFailure("set"),
                 storageCalls |-> 2, bucket |-> null, data |-> store]
           ELSE [threw |-> FALSE, error |-> NoError, storageCalls |-> 2,
                 bucket |-> newBucket, data |-> StorageSet(store, key, newBucket)]

\* what a method that threw hands to its caller
Thrown(got, key) ==
  [data |-> got.data, key |-> key, res |-> NoResult, stats |-> NoStats,
   threw |-> TRUE, error |-> got.error, storageCalls |-> got.storageCalls]

CustomDoCheck(store, ctx, t, failAt) ==
  LET key == keyGenerator(ctx)
      got == CustomGetBucket(store, key, t, failAt)
  IN  IF got.threw THEN Thrown(got, key)
      ELSE [data |-> got.data, key |-> key,
            res |-> CheckResult(got.bucket, key, t), stats |-> NoStats,
            threw |-> FALSE, error |-> NoError,
            storageCalls |-> got.storageCalls]

\* a variant of consume that throws on denial, as limit() does
CustomDoConsumeThrowing(store, ctx, t, failAt) ==
  LET key == keyGenerator(ctx)
      got == CustomGetBucket(store, key, t, failAt)
      consumeResult == consumeToken(got.bucket, t)
  IN  IF got.threw THEN Thrown(got, key)
      ELSE IF ~consumeResult.result.allowed
      THEN [data |-> got.data, key |-> key, res |-> NoResult, stats |-> NoStats,
            threw |-> TRUE, error |-> "Rate limit exceeded",
            storageCalls |-> got.storageCalls]
      ELSE IF failAt = got.storageCalls + 1
      THEN Thrown([got EXCEPT !.error = StorageFailure("set"),
                              !.storageCalls = @ + 1], key)
      ELSE [data |-> SyncSetBucket(got.data, key, consumeResult.bucket),
            key |-> key, res |-> ConsumeResult(consumeResult, key),
            stats |-> NoStats, threw |-> FALSE, error |-> NoError,
            storageCalls |-> got.storageCalls + 1]

CustomDoConsume(store, ctx, t, failAt) ==
  LET key == keyGenerator(ctx)
      got == CustomGetBucket(store, key, t, failAt)
      consumeResult == consumeToken(got.bucket, t)
  IN  IF got.threw THEN Thrown(got, key)
      ELSE IF ~consumeResult.result.allowed
      THEN [data |-> got.data, key |-> key,
            res |-> ConsumeResult(consumeResult, key), stats |-> NoStats,
            threw |-> FALSE, error |-> NoError,
            storageCalls |-> got.storageCalls]
      ELSE IF failAt = got.storageCalls + 1
      THEN Thrown([got EXCEPT !.error = StorageFailure("set"),
                              !.storageCalls = @ + 1], key)
      ELSE [data |-> SyncSetBucket(got.data, key, consumeResult.bucket),
            key |-> key, res |-> ConsumeResult(consumeResult, key),
            stats |-> NoStats, threw |-> FALSE, error |-> NoError,
            storageCalls |-> got.storageCalls + 1]

\* stats(key) with a key
CustomDoStats(store, key, t, failAt) ==
  LET got == CustomGetBucket(store, key, t, failAt)
  IN  IF got.threw THEN Thrown(got, key)
      ELSE [data |-> got.data, key |-> key, res |-> NoResult,
            stats |-> StatsResult(got.bucket, t), threw |-> FALSE,
            error |-> NoError, storageCalls |-> got.storageCalls]

CustomDoReset(store, key, failAt) ==
  IF failAt = 1
  THEN [data |-> store, key |-> key, res |-> NoResult, stats |-> NoStats,
        threw |-> TRUE, error |-> StorageFailure("delete"), storageCalls |-> 1]
  ELSE [data |-> StorageDelete(store, key), key |-> key, res |-> NoResult,
        stats |-> NoStats, threw |-> FALSE, error |-> NoError,
        storageCalls |-> 1]

\* a variant of cleanup that calls clear() without looking for it
CustomDoCleanupUnguarded(store, clear) ==
  IF clear
  THEN [data |-> StorageClear(store), key |-> "", res |-> NoResult,
        stats |-> NoStats, threw |-> FALSE, error |-> NoError,
        storageCalls |-> 1]
  ELSE [data |-> store, key |-> "", res |-> NoResult, stats |-> NoStats,
        threw |-> TRUE, error |-> NotAFunction, storageCalls |-> 0]

\* cleanup: `if (this.props.storage.clear)`; clear: the storage has clear()
CustomDoCleanup(store, clear) ==
  IF clear
  THEN [data |-> StorageClear(store), key |-> "", res |-> NoResult,
        stats |-> NoStats, threw |-> FALSE, error |-> NoError,
        storageCalls |-> 1]
  ELSE [data |-> store, key |-> "", res |-> NoResult, stats |-> NoStats,
        threw |-> FALSE, error |-> NoError, storageCalls |-> 0]

\* the configurations create() may be given: requests and window are not
\* restricted to positive numbers by their type
RawConfigs ==
  [requests : 0..MaxRequests, window : 1..MaxWindow, burst : 0..MaxBurst]

\* RateLimiterSync.create(config) with requests, window and burst given: the
\* values are taken as they are (`??` replaces only a missing field) and the
\* limiter is returned
create(config) ==
  [threw |-> FALSE, error |-> NoError,
   props |-> [requests |-> config.requests, window |-> config.window,
              burst |-> config.burst]]

\* before create() is called cfg holds its argument
InitCustom ==
  /\ cfg \in RawConfigs
  /\ now = 0
  /\ syncData = EmptyMap
  /\ data = EmptyMap
  /\ calls = [p \in Procs |-> Idle]
  /\ watch \in [what : {"none"}, key : WatchedKeys("none")]
  /\ last = NoCall
  /\ obs = NoObs
  /\ hasClear \in BOOLEAN
  /\ outcome = NoOutcome
  /\ state = NoState
  /\ runs = [p \in Procs |-> NoRun]
  /\ started = 0

\* a limiter exists
Created == outcome.op # "none"

CreateSync ==
  LET made == create(cfg)
  IN  /\ ~Created
      /\ cfg' = IF made.threw THEN cfg ELSE made.props
      /\ outcome' = [NoOutcome EXCEPT !.op = IF made.threw THEN "none" ELSE "create",
                                      !.threw = made.threw,
                                      !.error = made.error]
      /\ UNCHANGED <<now, syncData, data, calls, watch, last, obs, hasClear, unit>>

\* the call op, told to fail at its failAt-th storage call, ended as out; a
\* call that made fewer than failAt storage calls met no failure
CustomApply(op, failAt, out) ==
  /\ Created
  /\ syncData' = out.data
  /\ outcome' = [op |-> op, key |-> out.key,
                 failAt |-> IF failAt <= out.storageCalls THEN failAt ELSE 0,
                 threw |-> out.threw, error |-> out.error,
                 storageCalls |-> out.storageCalls, res |-> out.res,
                 stats |-> out.stats, pre |-> StorageGet(syncData, out.key),
                 before |-> IF op = "cleanup" THEN syncData ELSE << >>,
                 ctx |-> NoOutcome.ctx]
  /\ UNCHANGED <<cfg, now, data, calls, watch, last, obs, hasClear, unit>>

CustomCheck(ctx, failAt) ==
  CustomApply("check", failAt, CustomDoCheck(syncData, ctx, now, failAt))

CustomConsume(ctx, failAt) ==
  CustomApply("consume", failAt, CustomDoConsume(syncData, ctx, now, failAt))

CustomStats(key, failAt) ==
  CustomApply("stats", failAt, CustomDoStats(syncData, key, now, failAt))

CustomReset(key, failAt) ==
  CustomApply("reset", failAt, CustomDoReset(syncData, key, failAt))

CustomCleanup ==
  CustomApply("cleanup", 0, CustomDoCleanup(syncData, hasClear))

\* one millisecond passes between two calls
CustomTick ==
  /\ now < CustomMaxTime
  /\ now' = now + 1
  /\ outcome' = IF Created THEN [NoOutcome EXCEPT !.op = "create"] ELSE outcome
  /\ UNCHANGED <<cfg, syncData, data, calls, watch, last, obs, hasClear, unit>>

NextCustom ==
  \/ CreateSync
  \/ \E ctx \in Contexts, failAt \in 0..MaxStorageCalls : CustomCheck(ctx, failAt)
  \/ \E ctx \in Contexts, failAt \in 0..MaxStorageCalls : CustomConsume(ctx, failAt)
  \/ \E key \in Keys, failAt \in 0..MaxStorageCalls : CustomStats(key, failAt)
  \/ \E key \in Keys, failAt \in 0..MaxStorageCalls : CustomReset(key, failAt)
  \/ CustomCleanup
  \/ CustomTick

\* a RateLimiterSync created over a storage of the caller
SpecCustom == InitCustom /\ [][NextCustom]_vars

(* ------------- RateLimiterSync instances over one storage -------------- *)
\* RateLimiterSync.create({...config, storage}) over the storage in use: the
\* calls that follow are made through the new instance, whose props are
\* those of config; an instance holds nothing else, so a call through an
\* earlier instance is a call through a new one of the same config
MaxInstances == 2

SyncCreateOver(config) ==
  LET made == create(config)
  IN  /\ obs.instances < MaxInstances
      /\ ~made.threw
      /\ made.props # cfg
      /\ cfg' = made.props
      /\ last' = NoCall
      /\ obs' = [obs EXCEPT !.shared = obs.streak # undefined /\ obs.streak >= 1,
                             !.instances = @ + 1]
      /\ UNCHANGED <<now, syncData, data, calls, watch, custom, unit>>

\* the contexts of the watched key
WatchedContexts == {ctx \in Contexts : keyGenerator(ctx) = watch.key}

\* the calls are made on the watched key
NextShared ==
  \/ \E ctx \in WatchedContexts : SyncCheck(ctx)
  \/ \E ctx \in WatchedContexts : SyncConsume(ctx)
  \/ SyncStats(watch.key)
  \/ SyncReset(watch.key)
  \/ \E config \in Configs : SyncCreateOver(config)
  \/ Tick

\* limiter instances created one after another over one storage
SpecShared == InitWatching("shared") /\ [][NextShared]_vars

(* -------------------- contexts and their keys ------------------------- *)
\* contexts with and without a clientId and a resource, "default" and
\* "global" given in so many words among them
KeyContexts == [clientId : {"", "default", "a"}, resource : {"", "global", "r"}]

\* the call op with context ctx, whose outcome is out, is made on the
\* RateLimiterSync; the context, the storage before the call and the result
\* are recorded
KeyedApply(op, ctx, out) ==
  /\ syncData' = out.data
  /\ outcome' = [NoOutcome EXCEPT !.op = op, !.key = out.key, !.res = out.res,
                                  !.pre = StorageGet(syncData, out.key),
                                  !.before = syncData, !.ctx = ctx]
  /\ UNCHANGED <<cfg, now, data, calls, watch, last, obs, hasClear, unit>>

KeyedCheck(ctx) == KeyedApply("check", ctx, SyncDoCheck(syncData, ctx, now))

KeyedConsume(ctx) == KeyedApply("consume", ctx, SyncDoConsume(syncData, ctx, now))

NextKeyed ==
  \/ \E ctx \in KeyContexts : KeyedCheck(ctx)
  \/ \E ctx \in KeyContexts : KeyedConsume(ctx)

\* check and consume calls with any context, in one millisecond
SpecKeyed == Init /\ [][NextKeyed]_vars
(* --------------- TokenBucket (src/unnamed/part_001) ------------------- *)
\* new TokenBucket(capacity, window, burst) at time t
TokenBucket(capacity, window, burst, t) ==
  [tokens |-> FromInt(capacity + burst),
   lastRefill |-> t,
   capacity |-> capacity,
   refillRate |-> Rat(capacity, window),
   window |-> window]

\* a variant of TokenBucket.refill that does not cap the tokens at capacity
TokenBucketRefillUncapped(bucket, t) ==
  LET timePassed == t - bucket.lastRefill
  IN  IF timePassed >= bucket.window
      THEN [bucket EXCEPT !.tokens = FromInt(bucket.capacity),
                          !.lastRefill = t]
      ELSE LET tokensToAdd == RMul(FromInt(timePassed), bucket.refillRate)
           IN  [bucket EXCEPT
                  !.tokens = RAdd(bucket.tokens, tokensToAdd),
                  !.lastRefill = t]

\* TokenBucket.refill at time t: the bucket after it
TokenBucketRefill(bucket, t) ==
  LET timePassed == t - bucket.lastRefill
  IN  IF timePassed >= bucket.window
      THEN [bucket EXCEPT !.tokens = FromInt(bucket.capacity),
                          !.lastRefill = t]
      ELSE LET tokensToAdd == RMul(FromInt(timePassed), bucket.refillRate)
           IN  [bucket EXCEPT
                  !.tokens = RMin(FromInt(bucket.capacity),
                                  RAdd(bucket.tokens, tokensToAdd)),
                  !.lastRefill = t]

\* TokenBucket.consume at time t: the bucket after it and what it returns
TokenBucketConsume(bucket, t) ==
  LET refilled == TokenBucketRefill(bucket, t)
  IN  IF RLeq(FromInt(1), refilled.tokens)
      THEN LET taken == [refilled EXCEPT !.tokens = RSub(refilled.tokens, FromInt(1))]
           IN  [bucket |-> taken,
                result |-> [allowed |-> TRUE,
                            remaining |-> Floor(taken.tokens),
                            resetTime |-> taken.lastRefill + taken.window,
                            retryAfter |-> undefined]]
      ELSE LET timeToNextToken ==
                 Ceil(RDiv(RSub(FromInt(1), refilled.tokens), refilled.refillRate))
           IN  [bucket |-> refilled,
                result |-> [allowed |-> FALSE,
                            remaining |-> 0,
                            resetTime |-> refilled.lastRefill + refilled.window,
                            retryAfter |-> timeToNextToken]]

(* ------ AsyncRateLimiter (src/src/rate-limiter-async.unit.ts) --------- *)
\* Each method runs up to its next await in one step.  The StateAsync hands
\* out the Map and the stats object it holds, not copies: a bucket consumed
\* or a counter incremented through them is changed for every caller.  A
\* timer of setTimeout(resolve, ms) fires no earlier than ms after it was
\* set.

MaxRetries == 2
\* the calls made on the AsyncRateLimiter in one behaviour
MaxCalls == 5
StateMaxTime == 2
StateMaxRequests == 1
StateMaxWindow == 2

DefaultRequests == 100
DefaultWindow == 60000
DefaultBurst == 10

\* the config objects passed to AsyncRateLimiter.create; a burst of 0 is also
\* what an omitted burst counts as
StateConfigs ==
  [requests : 1..StateMaxRequests, window : 1..StateMaxWindow, burst : 0..MaxBurst]

\* the props of AsyncRateLimiter.create(config)
createAsyncRateLimiter(config) ==
  [requests |-> IF config.requests = 0 THEN DefaultRequests ELSE config.requests,
   window |-> IF config.window = 0 THEN DefaultWindow ELSE config.window,
   burst |-> IF config.burst = 0 THEN DefaultBurst ELSE config.burst]

StateContexts == [key : {""}]

\* the default keyGenerator of AsyncRateLimiter.create
defaultKeyGenerator(context) ==
  IF context.key = "" THEN "default" ELSE context.key

InitState ==
  /\ cfg \in {createAsyncRateLimiter(config) : config \in StateConfigs}
  /\ now = 0
  /\ syncData = EmptyMap
  /\ data = EmptyMap
  /\ calls = [p \in Procs |-> Idle]
  /\ watch \in [what : {"none"}, key : WatchedKeys("none")]
  /\ last = NoCall
  /\ obs = NoObs
  /\ hasClear = TRUE
  /\ outcome = NoOutcome
  /\ state = NoState
  /\ runs = [p \in Procs |-> NoRun]
  /\ started = 0

\* p may make a call
MayCall(p) ==
  /\ runs[p].pc \in {"idle", "done"}
  /\ started < MaxCalls

\* checkLimit up to `await state.get('buckets')`, entered by run
EnterCheckLimit(run) == [run EXCEPT !.pc = "get"]

\* limit(operation, context) is called by p
CallLimit(p, context) ==
  /\ MayCall(p)
  /\ runs' = [runs EXCEPT ![p] =
                EnterCheckLimit([NoRun EXCEPT !.fn = "limit",
                                              !.key = defaultKeyGenerator(context)])]
  /\ started' = started + 1
  /\ UNCHANGED <<cfg, now, syncData, data, calls, watch, last, obs, custom, state>>

\* limitWithRetry(operation, context, maxRetries) as far as its first await:
\* the loop is entered when attempts <= maxRetries
EnterLimitWithRetry(run) ==
  IF run.attempts <= run.maxRetries
  THEN EnterCheckLimit(run)
  ELSE [run EXCEPT !.pc = "done", !.end = "threw", !.error = "Error"]

\* limitWithRetry(operation, context, maxRetries) is called by p
CallLimitWithRetry(p, context, maxRetries) ==
  /\ MayCall(p)
  /\ runs' = [runs EXCEPT ![p] =
                EnterLimitWithRetry([NoRun EXCEPT !.fn = "limitWithRetry",
                                                  !.key = defaultKeyGenerator(context),
                                                  !.maxRetries = maxRetries])]
  /\ started' = started + 1
  /\ UNCHANGED <<cfg, now, syncData, data, calls, watch, last, obs, custom, state>>

\* checkLimit from `bucket = buckets.get(key)` to `await this.updateStats`,
\* which runs up to its `await state.get('stats')`
ConsumeBucket(p) ==
  IF runs[p].key \in DOMAIN state.buckets
  THEN LET consumed == TokenBucketConsume(state.buckets[runs[p].key], now)
       IN  /\ state' = [state EXCEPT !.buckets[runs[p].key] = consumed.bucket]
           /\ runs' = [runs EXCEPT ![p].pc = "stats",
                                   ![p].result = consumed.result,
                                   ![p].at = now,
                                   ![p].consumes = @ + 1]
           /\ obs' = IF watch.what = "tally" /\ consumed.result.allowed
                     THEN [obs EXCEPT !.allowedResults = @ + 1]
                     ELSE obs
  ELSE /\ state' = state
       /\ runs' = [runs EXCEPT ![p].pc = "done", ![p].end = "threw",
                               ![p].error = "Error"]
       /\ obs' = obs

\* `await state.get('buckets')` of checkLimit resumes p: a missing bucket is
\* created and p awaits state.set, else p goes on to consume
GotBuckets(p) ==
  /\ runs[p].pc = "get"
  /\ IF runs[p].key \notin DOMAIN state.buckets
     THEN /\ state' = [state EXCEPT !.buckets =
                         StorageSet(@, runs[p].key,
                                    TokenBucket(cfg.requests, cfg.window, cfg.burst, now))]
          /\ runs' = [runs EXCEPT ![p].pc = "set"]
          /\ obs' = obs
     ELSE ConsumeBucket(p)
  /\ UNCHANGED <<cfg, now, syncData, data, calls, watch, last, custom, started>>

\* `await state.set('buckets', buckets)` of checkLimit resumes p
SetBuckets(p) ==
  /\ runs[p].pc = "set"
  /\ ConsumeBucket(p)
  /\ UNCHANGED <<cfg, now, syncData, data, calls, watch, last, custom, started>>

\* a variant of updateStats that counts a denied request as an allowed one
GotStatsAllAllowed(p) ==
  /\ runs[p].pc = "stats"
  /\ state' = [state EXCEPT
                 !.stats.totalRequests = @ + 1,
                 !.stats.allowedRequests = @ + 1]
  /\ runs' = [runs EXCEPT ![p].pc = "size"]
  /\ UNCHANGED <<cfg, now, syncData, data, calls, watch, last, obs, custom, started>>

\* `await state.get('stats')` of updateStats resumes p: the counters are
\* incremented, up to `await state.get('buckets')`
GotStats(p) ==
  /\ runs[p].pc = "stats"
  /\ state' = [state EXCEPT
                 !.stats.totalRequests = @ + 1,
                 !.stats.allowedRequests = IF runs[p].result.allowed THEN @ + 1 ELSE @,
                 !.stats.blockedRequests = IF runs[p].result.allowed THEN @ ELSE @ + 1]
  /\ runs' = [runs EXCEPT ![p].pc = "size"]
  /\ UNCHANGED <<cfg, now, syncData, data, calls, watch, last, obs, custom, started>>

\* a variant of limit that returns nothing on a denial instead of throwing
ResumeLimitSilent(run, t) ==
  IF run.result.allowed
  THEN [run EXCEPT !.pc = "operation", !.ran = @ + 1]
  ELSE [run EXCEPT !.pc = "done", !.end = "returned"]

\* a variant of limit that invokes the operation before it looks at the
\* result
ResumeLimitEager(run, t) ==
  IF run.result.allowed
  THEN [run EXCEPT !.pc = "operation", !.ran = @ + 1]
  ELSE [run EXCEPT !.pc = "done", !.end = "threw", !.error = "RateLimitError",
                   !.thrown = run.result, !.ran = @ + 1]

\* limit after `await this.checkLimit(context)`
ResumeLimit(run, t) ==
  IF run.result.allowed
  THEN [run EXCEPT !.pc = "operation", !.ran = @ + 1]
  ELSE [run EXCEPT !.pc = "done", !.end = "threw", !.error = "RateLimitError",
                   !.thrown = run.result]

\* a variant of limitWithRetry that allows itself one attempt more
ResumeLimitWithRetryOneMore(run, t) ==
  IF run.result.allowed
  THEN [run EXCEPT !.pc = "operation", !.ran = @ + 1]
  ELSE LET attempts == run.attempts + 1
       IN  IF attempts > run.maxRetries + 1
           THEN [run EXCEPT !.attempts = attempts,
                            !.pc = "done", !.end = "threw",
                            !.error = "RateLimitError", !.thrown = run.result]
           ELSE [run EXCEPT !.attempts = attempts,
                            !.pc = "sleep",
                            !.wakeAt = t + run.result.retryAfter,
                            !.slept = @ + 1]

\* a variant of limitWithRetry that gives up one attempt early
ResumeLimitWithRetryGiveUp(run, t) ==
  IF run.result.allowed
  THEN [run EXCEPT !.pc = "operation", !.ran = @ + 1]
  ELSE LET attempts == run.attempts + 1
       IN  IF attempts >= run.maxRetries
           THEN [run EXCEPT !.attempts = attempts,
                            !.pc = "done", !.end = "threw",
                            !.error = "RateLimitError", !.thrown = run.result]
           ELSE [run EXCEPT !.attempts = attempts,
                            !.pc = "sleep",
                            !.wakeAt = t + run.result.retryAfter,
                            !.slept = @ + 1]

\* limitWithRetry after `await this.checkLimit(context)`, at time t
ResumeLimitWithRetry(run, t) ==
  IF run.result.allowed
  THEN [run EXCEPT !.pc = "operation", !.ran = @ + 1]
  ELSE LET attempts == run.attempts + 1
       IN  IF attempts > run.maxRetries
           THEN [run EXCEPT !.attempts = attempts,
                            !.pc = "done", !.end = "threw",
                            !.error = "RateLimitError", !.thrown = run.result]
           ELSE IF run.result.retryAfter # 0
                THEN [run EXCEPT !.attempts = attempts,
                                 !.pc = "sleep",
                                 !.wakeAt = t + run.result.retryAfter,
                                 !.slept = @ + 1]
                ELSE EnterLimitWithRetry([run EXCEPT !.attempts = attempts])

\* `await state.get('buckets')` of updateStats resumes p: the stats are
\* completed and set, checkLimit returns its result and the method that
\* called it, if any, goes on to its next await
GotSize(p) ==
  /\ runs[p].pc = "size"
  /\ state' = [state EXCEPT
                 !.stats.activeBuckets = Cardinality(DOMAIN state.buckets),
                 !.stats.allowRate =
                   IF state.stats.totalRequests > 0
                   THEN Rat(state.stats.allowedRequests, state.stats.totalRequests)
                   ELSE FromInt(0)]
  /\ runs' = [runs EXCEPT ![p] =
                CASE runs[p].fn = "checkLimit" ->
                       [runs[p] EXCEPT !.pc = "done", !.end = "returned"]
                  [] runs[p].fn = "limit" -> ResumeLimit(runs[p], now)
                  [] OTHER -> ResumeLimitWithRetry(runs[p], now)]
  /\ obs' = [obs EXCEPT !.keyReset = FALSE]
  /\ UNCHANGED <<cfg, now, syncData, data, calls, watch, last, custom, started>>

\* what an operation does: it resolves with a value or rejects
OperationEnds == {"returned", "threw"}

\* a variant in which the token of a failed operation goes back to the bucket
OperationDoneRefund(p, how) ==
  /\ runs[p].pc = "operation"
  /\ runs' = [runs EXCEPT ![p].pc = "done",
                          ![p].end = how,
                          ![p].value = IF how = "returned" THEN "value" ELSE "",
                          ![p].error = IF how = "threw" THEN "OperationError" ELSE NoError]
  /\ state' = IF how = "threw" /\ runs[p].key \in DOMAIN state.buckets
              THEN [state EXCEPT !.buckets[runs[p].key].tokens = RAdd(@, FromInt(1))]
              ELSE state
  /\ UNCHANGED <<cfg, now, syncData, data, calls, watch, last, obs, custom, started>>

\* `await operation()` resumes p: limit and limitWithRetry return the value
\* of the operation or pass on its error
OperationDone(p, how) ==
  /\ runs[p].pc = "operation"
  /\ runs' = [runs EXCEPT ![p].pc = "done",
                          ![p].end = how,
                          ![p].value = IF how = "returned" THEN "value" ELSE "",
                          ![p].error = IF how = "threw" THEN "OperationError" ELSE NoError]
  /\ UNCHANGED <<cfg, now, syncData, data, calls, watch, last, obs, custom, state, started>>

\* a variant of the timer that fires as soon as it is set
WakeAtOnce(p) ==
  /\ runs[p].pc = "sleep"
  /\ runs' = [runs EXCEPT ![p].pc = "get"]
  /\ UNCHANGED <<cfg, now, syncData, data, calls, watch, last, obs, custom, state, started>>

\* the timer of sleep fires and limitWithRetry goes round its loop
Wake(p) ==
  /\ runs[p].pc = "sleep"
  /\ now >= runs[p].wakeAt
  /\ runs' = [runs EXCEPT ![p] = EnterLimitWithRetry(runs[p])]
  /\ UNCHANGED <<cfg, now, syncData, data, calls, watch, last, obs, custom, state, started>>

\* one millisecond passes
StateTick ==
  /\ now < StateMaxTime
  /\ now' = now + 1
  /\ UNCHANGED <<cfg, syncData, data, calls, watch, last, obs, custom, unit>>

NextState ==
  \/ \E p \in Procs, context \in StateContexts : CallLimit(p, context)
  \/ \E p \in Procs, context \in StateContexts, maxRetries \in (0 - 1)..MaxRetries :
       CallLimitWithRetry(p, context, maxRetries)
  \/ \E p \in Procs : GotBuckets(p)
  \/ \E p \in Procs : SetBuckets(p)
  \/ \E p \in Procs : GotStats(p)
  \/ \E p \in Procs : GotSize(p)
  \/ \E p \in Procs, how \in OperationEnds : OperationDone(p, how)
  \/ \E p \in Procs : Wake(p)
  \/ StateTick

\* callers of an AsyncRateLimiter
SpecState == InitState /\ [][NextState]_vars

(* ------------- checkLimit and reset, with the results counted ----------- *)
TallyContexts == [key : {"", "a"}]

\* checkLimit(context) is called by p
CallCheckLimit(p, context) ==
  /\ MayCall(p)
  /\ runs' = [runs EXCEPT ![p] =
                EnterCheckLimit([NoRun EXCEPT !.fn = "checkLimit",
                                              !.key = defaultKeyGenerator(context)])]
  /\ started' = started + 1
  /\ last' = NoCall
  /\ UNCHANGED <<cfg, now, syncData, data, calls, watch, obs, custom, state>>

\* no call is between its start and its return
NonePending == \A p \in Procs : runs[p].pc \in {"idle", "done"}

\* reset() without a key, called while no checkLimit is pending: a new Map
\* and new stats are set; the calls made from here on are counted anew and
\* the results of the finished ones are forgotten.  last records the reset
\* made last, with key "" for reset(), until the next checkLimit is called
ResetAll ==
  /\ NonePending
  /\ state' = [state EXCEPT
                 !.buckets = EmptyMap,
                 !.stats = [NoState.stats EXCEPT !.created = now]]
  /\ started' = 0
  /\ runs' = [p \in Procs |-> NoRun]
  /\ obs' = [obs EXCEPT !.allowedResults = 0, !.keyReset = FALSE]
  /\ last' = [NoCall EXCEPT !.op = "reset", !.key = ""]
  /\ UNCHANGED <<cfg, now, syncData, data, calls, watch, custom>>

\* a variant of reset(key) that zeroes the counters as reset() does
ResetKeyAndCounters(key) ==
  /\ NonePending
  /\ key \in DOMAIN state.buckets
  /\ state' = [state EXCEPT !.buckets = StorageDelete(@, key),
                            !.stats.totalRequests = 0,
                            !.stats.allowedRequests = 0,
                            !.stats.blockedRequests = 0]
  /\ obs' = [obs EXCEPT !.keyReset = TRUE]
  /\ last' = [NoCall EXCEPT !.op = "reset", !.key = key]
  /\ UNCHANGED <<cfg, now, syncData, data, calls, watch, custom, runs, started>>

\* reset(key), called while no checkLimit is pending: the bucket of key is
\* deleted from the Map, the stats are left as they are
ResetKey(key) ==
  /\ NonePending
  /\ key \in DOMAIN state.buckets
  /\ state' = [state EXCEPT !.buckets = StorageDelete(@, key)]
  /\ obs' = [obs EXCEPT !.keyReset = TRUE]
  /\ last' = [NoCall EXCEPT !.op = "reset", !.key = key]
  /\ UNCHANGED <<cfg, now, syncData, data, calls, watch, custom, runs, started>>

InitTally ==
  /\ cfg \in {createAsyncRateLimiter(config) : config \in StateConfigs}
  /\ now = 0
  /\ syncData = EmptyMap
  /\ data = EmptyMap
  /\ calls = [p \in Procs |-> Idle]
  /\ watch \in [what : {"tally"}, key : {""}]
  /\ last = NoCall
  /\ obs = NoObs
  /\ hasClear = TRUE
  /\ outcome = NoOutcome
  /\ state = NoState
  /\ runs = [p \in Procs |-> NoRun]
  /\ started = 0

NextTally ==
  \/ \E p \in Procs, context \in TallyContexts : CallCheckLimit(p, context)
  \/ \E p \in Procs : GotBuckets(p)
  \/ \E p \in Procs : SetBuckets(p)
  \/ \E p \in Procs : GotStats(p)
  \/ \E p \in Procs : GotSize(p)
  \/ ResetAll
  \/ \E key \in {defaultKeyGenerator(context) : context \in TallyContexts} :
       ResetKey(key)
  \/ StateTick

\* checkLimit calls on an AsyncRateLimiter, with reset() and reset(key)
\* between them
SpecTally == InitTally /\ [][NextTally]_vars

(* ------------- checkLimit calls on a fresh key, in one millisecond ------ *)
FreshMaxRequests == 3

\* the config objects of the limiters whose fresh key is called
FreshConfigs ==
  [requests : 1..FreshMaxRequests, window : 1..StateMaxWindow, burst : 0..MaxBurst]

InitFresh ==
  /\ cfg \in {createAsyncRateLimiter(config) : config \in FreshConfigs}
  /\ now = 0
  /\ syncData = EmptyMap
  /\ data = EmptyMap
  /\ calls = [p \in Procs |-> Idle]
  /\ watch \in [what : {"tally"}, key : {""}]
  /\ last = NoCall
  /\ obs = NoObs
  /\ hasClear = TRUE
  /\ outcome = NoOutcome
  /\ state = NoState
  /\ runs = [p \in Procs |-> NoRun]
  /\ started = 0

NextFresh ==
  \/ \E p \in Procs, context \in StateContexts : CallCheckLimit(p, context)
  \/ \E p \in Procs : GotBuckets(p)
  \/ \E p \in Procs : SetBuckets(p)
  \/ \E p \in Procs : GotStats(p)
  \/ \E p \in Procs : GotSize(p)

\* checkLimit calls on one key of a new AsyncRateLimiter, one after the
\* other or overlapping, with no time elapsing
SpecFresh == InitFresh /\ [][NextFresh]_vars

(* ------------------- limitWithRetry and cancellation -------------------- *)
\* the caller p of limitWithRetry asks for its call to be cancelled while the
\* call awaits checkLimit.  limitWithRetry takes operation, context and
\* maxRetries and reads nothing else: the request changes nothing the call
\* looks at
RequestCancel(p) ==
  /\ runs[p].fn = "limitWithRetry"
  /\ runs[p].pc \in {"stats", "size"}
  /\ ~runs[p].cancelled
  /\ runs' = [runs EXCEPT ![p].cancelled = TRUE]
  /\ UNCHANGED <<cfg, now, syncData, data, calls, watch, last, obs, custom, state, started>>

NextCancel ==
  \/ \E p \in Procs, context \in StateContexts : CallLimit(p, context)
  \/ \E p \in Procs, context \in StateContexts, maxRetries \in 1..MaxRetries :
       CallLimitWithRetry(p, context, maxRetries)
  \/ \E p \in Procs : GotBuckets(p)
  \/ \E p \in Procs : SetBuckets(p)
  \/ \E p \in Procs : GotStats(p)
  \/ \E p \in Procs : GotSize(p)
  \/ \E p \in Procs, how \in OperationEnds : OperationDone(p, how)
  \/ \E p \in Procs : Wake(p)
  \/ \E p \in Procs : RequestCancel(p)
  \/ StateTick

\* callers of an AsyncRateLimiter who may ask for cancellation
SpecCancel == InitState /\ [][NextCancel]_vars

(* ---------------------- a caller with the key to itself ----------------- *)
\* the one caller of the limiter
Sole == CHOOSE p \in Procs : \A q \in Procs : p <= q

\* one millisecond passes; time goes on while a timer of sleep is pending
SoleTick ==
  /\ \/ now < StateMaxTime
     \/ runs[Sole].pc = "sleep" /\ now < runs[Sole].wakeAt
  /\ now' = now + 1
  /\ UNCHANGED <<cfg, syncData, data, calls, watch, last, obs, custom, unit>>

NextSole ==
  \/ \E context \in StateContexts : CallLimit(Sole, context)
  \/ \E context \in StateContexts, maxRetries \in (0 - 1)..MaxRetries :
       CallLimitWithRetry(Sole, context, maxRetries)
  \/ GotBuckets(Sole)
  \/ SetBuckets(Sole)
  \/ GotStats(Sole)
  \/ GotSize(Sole)
  \/ \E how \in OperationEnds : OperationDone(Sole, how)
  \/ Wake(Sole)
  \/ SoleTick

\* the event loop resumes every settled await and fires every due timer,
\* time passes, and the operation the caller passed settles.  GotBuckets is
\* enabled exactly at pc "get" and SetBuckets exactly at pc "set", and each
\* leaves that position, so weak fairness of the two is that the caller is
\* again and again at neither
FairSole ==
  /\ []<>(runs[Sole].pc # "get")
  /\ []<>(runs[Sole].pc # "set")
  /\ WF_vars(GotStats(Sole))
  /\ WF_vars(GotSize(Sole))
  /\ WF_vars(\E how \in OperationEnds : OperationDone(Sole, how))
  /\ WF_vars(Wake(Sole))
  /\ WF_vars(SoleTick)

\* one caller making its calls of limit and limitWithRetry one after the
\* other
SpecSole == InitState /\ [][NextSole]_vars /\ FairSole

(* ===================== numbers as IEEE 754 doubles ====================== *)
\* The tokens and the refillRate of a TokenBucket are JavaScript numbers:
\* binary64 values, every operation on them rounded to the nearest value of
\* 53 significant bits, ties to even.  The limiters above compute with the
\* exact values; this section computes with the rounded ones.  The values of
\* a bucket are never negative, subnormal or infinite.

\* significant bits of a number
Precision == 53

\* a natural number of any size: its digits in base 2^15, lowest first, the
\* highest one not 0
Limb == 2^15
LimbBits == 15

\* the value of a singleton set; the operators below bind their operands
\* as members of singleton sets, which evaluates each operand once
Only(S) == CHOOSE v \in S : TRUE

DigitAt(n, i) == IF i \in 1..Len(n) THEN n[i] ELSE 0

TrimDigits(n) ==
  LET used == {i \in 1..Len(n) : n[i] # 0}
  IN  IF used = {} THEN <<>>
      ELSE SubSeq(n, 1, CHOOSE i \in used : \A j \in used : j <= i)

Trim(digits) == Only({TrimDigits(n) : n \in {digits}})

\* k >= 0 as a natural of any size, and back
BigFromInt(k) == Trim(<<k % Limb, (k \div Limb) % Limb, k \div (Limb * Limb)>>)
BigToInt(n) == DigitAt(n, 1) + Limb * DigitAt(n, 2) + Limb * Limb * DigitAt(n, 3)

RECURSIVE BigAddFrom(_, _, _, _)
BigAddFrom(a, b, i, carry) ==
  IF i > Len(a) /\ i > Len(b)
  THEN IF carry = 0 THEN <<>> ELSE <<carry>>
  ELSE Only({<<sum % Limb>> \o BigAddFrom(a, b, i + 1, sum \div Limb) :
               sum \in {DigitAt(a, i) + DigitAt(b, i) + carry}})

BigAdd(x, y) == Only({BigAddFrom(a, b, 1, 0) : a \in {x}, b \in {y}})

RECURSIVE BigSubFrom(_, _, _, _)
BigSubFrom(a, b, i, borrow) ==
  IF i > Len(a) THEN <<>>
  ELSE Only({<<(diff + Limb) % Limb>> \o
               BigSubFrom(a, b, i + 1, IF diff < 0 THEN 1 ELSE 0) :
               diff \in {DigitAt(a, i) - DigitAt(b, i) - borrow}})

\* x - y for x >= y
BigSub(x, y) == Only({TrimDigits(BigSubFrom(a, b, 1, 0)) : a \in {x}, b \in {y}})

BigLeq(x, y) ==
  \E a \in {x}, b \in {y} :
    IF Len(a) # Len(b) THEN Len(a) < Len(b)
    ELSE LET differ == {i \in 1..Len(a) : a[i] # b[i]}
         IN  \/ differ = {}
             \/ \E top \in differ :
                  /\ \A j \in differ : j <= top
                  /\ a[top] < b[top]

RECURSIVE BigMulFrom(_, _, _, _)
BigMulFrom(a, k, i, carry) ==
  IF i > Len(a)
  THEN IF carry = 0 THEN <<>> ELSE <<carry>>
  ELSE Only({<<product % Limb>> \o BigMulFrom(a, k, i + 1, product \div Limb) :
               product \in {a[i] * k + carry}})

\* x * k for 0 <= k < 2^15
BigMulSmall(x, k) == Only({TrimDigits(BigMulFrom(a, j, 1, 0)) : a \in {x}, j \in {k}})

\* x * 2^s
ShiftLeft(x, s) ==
  Only({IF a = <<>> THEN <<>>
        ELSE [i \in 1..(s \div LimbBits) |-> 0] \o BigMulSmall(a, 2^(s % LimbBits)) :
        a \in {x}})

\* floor(x / 2^s)
ShiftRight(x, s) ==
  Only({TrimDigits([i \in 1..Len(rest) |->
                      (rest[i] \div 2^bits) +
                      (DigitAt(rest, i + 1) % 2^bits) * 2^(LimbBits - bits)]) :
        rest \in {IF s \div LimbBits >= Len(a) THEN <<>>
                  ELSE SubSeq(a, s \div LimbBits + 1, Len(a)) : a \in {x}},
        bits \in {s % LimbBits}})

\* the number of bits of x
BitLength(x) ==
  Only({IF a = <<>> THEN 0
        ELSE LimbBits * (Len(a) - 1) +
             CHOOSE k \in 1..LimbBits : 2^(k - 1) <= a[Len(a)] /\ a[Len(a)] < 2^k :
        a \in {x}})

IsOdd(a) == a # <<>> /\ a[1] % 2 = 1

\* n more bits of the long division by b: the bits of the quotient appended
\* to digit, and the remainder r < b
RECURSIVE DivideLimb(_, _, _, _)
DivideLimb(r, b, n, digit) ==
  IF n = 0 THEN [digit |-> digit, r |-> r]
  ELSE Only({IF BigLeq(b, twice)
             THEN DivideLimb(BigSub(twice, b), b, n - 1, 2 * digit + 1)
             ELSE DivideLimb(twice, b, n - 1, 2 * digit) :
             twice \in {BigAdd(r, r)}})

\* the long division by b goes on for limbs more digits of the quotient
RECURSIVE QuotientFrom(_, _, _, _)
QuotientFrom(r, b, limbs, digits) ==
  IF limbs = 0 THEN [q |-> TrimDigits(digits), r |-> r]
  ELSE Only({QuotientFrom(d.r, b, limbs - 1, <<d.digit>> \o digits) :
             d \in {DivideLimb(r, b, LimbBits, 0)}})

\* a number: 0, or m * 2^e with m of exactly 53 bits
Zero == [m |-> <<>>, e |-> 0]

\* n > 0 of more than 53 bits, with the bit below the 53 as guard bit
RoundUp(kept, guard, below) == IsOdd(guard) /\ (below \/ IsOdd(kept))

\* the number nearest to n * 2^e, ties to even; sticky says that the exact
\* value is a little above n * 2^e, by less than 2^e
RoundToNumber(digits, e, sticky) ==
  Only({IF n = <<>> THEN Zero
        ELSE IF bits <= Precision
        THEN [m |-> ShiftLeft(n, Precision - bits), e |-> e - (Precision - bits)]
        ELSE Only({IF BitLength(m) > Precision
                   THEN [m |-> ShiftRight(m, 1), e |-> e + (bits - Precision) + 1]
                   ELSE [m |-> m, e |-> e + (bits - Precision)] :
                   m \in {IF RoundUp(kept, guard,
                                     sticky \/ ShiftLeft(guard, bits - Precision - 1) # n)
                          THEN BigAdd(kept, <<1>>) ELSE kept :
                          kept \in {ShiftRight(n, bits - Precision)},
                          guard \in {ShiftRight(n, bits - Precision - 1)}}}) :
        n \in {digits}, bits \in {BitLength(digits)}})

\* the integer k >= 0 as a number
NumberOf(k) == RoundToNumber(BigFromInt(k), 0, FALSE)

\* a <= b
NumberLeq(a, b) ==
  \E x \in {a}, y \in {b} :
    \/ x.m = <<>>
    \/ /\ y.m # <<>>
       /\ \/ x.e < y.e
          \/ x.e = y.e /\ BigLeq(x.m, y.m)

\* a + b
NumberAdd(a, b) ==
  Only({IF x.m = <<>> THEN y
        ELSE IF y.m = <<>> THEN x
        ELSE LET e == IF x.e < y.e THEN x.e ELSE y.e
             IN  RoundToNumber(BigAdd(ShiftLeft(x.m, x.e - e), ShiftLeft(y.m, y.e - e)),
                               e, FALSE) :
        x \in {a}, y \in {b}})

\* a - b for a >= b
NumberSub(a, b) ==
  Only({IF y.m = <<>> THEN x
        ELSE LET e == IF x.e < y.e THEN x.e ELSE y.e
             IN  RoundToNumber(BigSub(ShiftLeft(x.m, x.e - e), ShiftLeft(y.m, y.e - e)),
                               e, FALSE) :
        x \in {a}, y \in {b}})

\* k * a for an integer 0 <= k < 2^15
NumberTimes(k, a) ==
  Only({RoundToNumber(BigMulSmall(x.m, k), x.e, FALSE) : x \in {a}})

\* the quotient of the 53-bit x by the 53-bit y: its leading bit and the 60
\* bits after it, and the remainder
Quotient(x, y) ==
  IF BigLeq(y, x)
  THEN QuotientFrom(BigSub(x, y), y, 4, <<1>>)
  ELSE QuotientFrom(x, y, 4, <<>>)

\* a / b for b > 0
NumberDiv(a, b) ==
  Only({IF x.m = <<>> THEN Zero
        ELSE Only({RoundToNumber(divided.q, x.e - y.e - 4 * LimbBits,
                                 divided.r # <<>>) :
                   divided \in {Quotient(x.m, y.m)}}) :
        x \in {a}, y \in {b}})

NumberMin(a, b) == Only({IF NumberLeq(x, y) THEN x ELSE y : x \in {a}, y \in {b}})

\* Math.floor and Math.ceil of a number below 2^31
NumberFloor(a) ==
  Only({IF x.m = <<>> THEN 0
        ELSE IF x.e >= 0 THEN BigToInt(ShiftLeft(x.m, x.e))
        ELSE BigToInt(ShiftRight(x.m, 0 - x.e)) :
        x \in {a}})

NumberCeil(a) ==
  Only({IF x.m = <<>> \/ x.e >= 0 THEN NumberFloor(x)
        ELSE Only({BigToInt(whole) + IF ShiftLeft(whole, 0 - x.e) = x.m THEN 0 ELSE 1 :
                   whole \in {ShiftRight(x.m, 0 - x.e)}}) :
        x \in {a}})

(* ------------- the TokenBucket class computing with numbers ------------- *)
\* new TokenBucket(capacity, window, burst) at time t
TokenBucketOfNumbers(capacity, window, burst, t) ==
  [tokens |-> NumberOf(capacity + burst),
   lastRefill |-> t,
   capacity |-> capacity,
   refillRate |-> NumberDiv(NumberOf(capacity), NumberOf(window)),
   window |-> window]

\* TokenBucket.refill() at time t
TokenBucketRefillRounded(bucket, t) ==
  LET timePassed == t - bucket.lastRefill
  IN  IF timePassed >= bucket.window
      THEN [bucket EXCEPT !.tokens = NumberOf(bucket.capacity),
                          !.lastRefill = t]
      ELSE LET tokensToAdd == NumberTimes(timePassed, bucket.refillRate)
           IN  [bucket EXCEPT
                  !.tokens = NumberMin(NumberOf(bucket.capacity),
                                       NumberAdd(bucket.tokens, tokensToAdd)),
                  !.lastRefill = t]

\* TokenBucket.consume() at time t: the bucket afterwards and the result
TokenBucketConsumeRounded(bucket, t) ==
  LET refilled == TokenBucketRefillRounded(bucket, t)
  IN  IF NumberLeq(NumberOf(1), refilled.tokens)
      THEN LET taken == [refilled EXCEPT
                           !.tokens = NumberSub(refilled.tokens, NumberOf(1))]
           IN  [bucket |-> taken,
                result |-> [allowed |-> TRUE,
                            remaining |-> NumberFloor(taken.tokens),
                            resetTime |-> taken.lastRefill + taken.window,
                            retryAfter |-> undefined]]
      ELSE LET timeToNextToken ==
                 NumberCeil(NumberDiv(NumberSub(NumberOf(1), refilled.tokens),
                                      refilled.refillRate))
           IN  [bucket |-> refilled,
                result |-> [allowed |-> FALSE,
                            remaining |-> 0,
                            resetTime |-> refilled.lastRefill + refilled.window,
                            retryAfter |-> timeToNextToken]]

\* checkLimit from `bucket = buckets.get(key)` to `await this.updateStats`
ConsumeBucketRounded(p) ==
  IF runs[p].key \in DOMAIN state.buckets
  THEN LET consumed == TokenBucketConsumeRounded(state.buckets[runs[p].key], now)
       IN  /\ state' = [state EXCEPT !.buckets[runs[p].key] = consumed.bucket]
           /\ runs' = [runs EXCEPT ![p].pc = "stats",
                                   ![p].result = consumed.result,
                                   ![p].at = now,
                                   ![p].consumes = @ + 1]
  ELSE /\ state' = state
       /\ runs' = [runs EXCEPT ![p].pc = "done", ![p].end = "threw",
                               ![p].error = "Error"]

\* `await state.get('buckets')` of checkLimit resumes
GotBucketsRounded(p) ==
  /\ runs[p].pc = "get"
  /\ IF runs[p].key \notin DOMAIN state.buckets
     THEN /\ state' = [state EXCEPT !.buckets =
                         StorageSet(@, runs[p].key,
                                    TokenBucketOfNumbers(cfg.requests, cfg.window,
                                                         cfg.burst, now))]
          /\ runs' = [runs EXCEPT ![p].pc = "set"]
     ELSE ConsumeBucketRounded(p)
  /\ UNCHANGED <<cfg, now, syncData, data, calls, watch, last, obs, custom, started>>

\* `await state.set('buckets', buckets)` of checkLimit resumes
SetBucketsRounded(p) ==
  /\ runs[p].pc = "set"
  /\ ConsumeBucketRounded(p)
  /\ UNCHANGED <<cfg, now, syncData, data, calls, watch, last, obs, custom, started>>

RoundedMaxRequests == 2
RoundedMaxWindow == 7
RoundedMaxTime == 7
\* the calls the caller makes in one behaviour
RoundedMaxCalls == 2

\* the config objects passed to AsyncRateLimiter.create
RoundedConfigs ==
  [requests : 1..RoundedMaxRequests, window : 1..RoundedMaxWindow, burst : {0}]

InitRounded ==
  /\ cfg \in {createAsyncRateLimiter(config) : config \in RoundedConfigs}
  /\ now = 0
  /\ syncData = EmptyMap
  /\ data = EmptyMap
  /\ calls = [p \in Procs |-> Idle]
  /\ watch \in [what : {"none"}, key : WatchedKeys("none")]
  /\ last = NoCall
  /\ obs = NoObs
  /\ hasClear = TRUE
  /\ outcome = NoOutcome
  /\ state = NoState
  /\ runs = [p \in Procs |-> NoRun]
  /\ started = 0

\* one millisecond passes; time goes on while a timer of sleep is pending
RoundedTick ==
  /\ \/ now < RoundedMaxTime
     \/ runs[Sole].pc = "sleep" /\ now < runs[Sole].wakeAt
  /\ now' = now + 1
  /\ UNCHANGED <<cfg, syncData, data, calls, watch, last, obs, custom, unit>>

\* the caller calls limit(operation, context)
RoundedCallLimit(context) ==
  /\ started < RoundedMaxCalls
  /\ CallLimit(Sole, context)

\* the caller calls limitWithRetry(operation, context, maxRetries)
RoundedCallLimitWithRetry(context, maxRetries) ==
  /\ started < RoundedMaxCalls
  /\ CallLimitWithRetry(Sole, context, maxRetries)

NextRounded ==
  \/ \E context \in StateContexts : RoundedCallLimit(context)
  \/ \E context \in StateContexts, maxRetries \in 0..MaxRetries :
       RoundedCallLimitWithRetry(context, maxRetries)
  \/ GotBucketsRounded(Sole)
  \/ SetBucketsRounded(Sole)
  \/ GotStats(Sole)
  \/ GotSize(Sole)
  \/ \E how \in OperationEnds : OperationDone(Sole, how)
  \/ Wake(Sole)
  \/ RoundedTick

\* one caller making its calls of limit and limitWithRetry one after the
\* other on buckets of numbers
SpecRounded == InitRounded /\ [][NextRounded]_vars

(* ------------- bucket.ts and RateLimiterSync computing with numbers ----- *)
\* createBucket(capacity, window, burst) at time t
createBucketOfNumbers(capacity, window, burst, t) ==
  [tokens |-> NumberOf(capacity + burst),
   capacity |-> capacity,
   burstCapacity |-> capacity + burst,
   lastRefill |-> t,
   window |-> window,
   refillRate |-> NumberDiv(NumberOf(capacity), NumberOf(window))]

\* refillBucket(bucket) at time t
refillBucketRounded(bucket, t) ==
  LET timePassed == t - bucket.lastRefill
  IN  IF timePassed >= bucket.window
      THEN [bucket EXCEPT !.tokens = NumberOf(bucket.burstCapacity),
                          !.lastRefill = t]
      ELSE LET tokensToAdd == NumberTimes(timePassed, bucket.refillRate)
           IN  [bucket EXCEPT
                  !.tokens = NumberMin(NumberOf(bucket.burstCapacity),
                                       NumberAdd(bucket.tokens, tokensToAdd)),
                  !.lastRefill = t]

\* consumeToken(bucket) at time t
consumeTokenRounded(bucket, t) ==
  Only({IF NumberLeq(NumberOf(1), refilled.tokens)
        THEN Only({[bucket |-> updatedBucket,
                    result |-> [allowed |-> TRUE,
                                remaining |-> NumberFloor(updatedBucket.tokens),
                                resetTime |-> refilled.lastRefill + refilled.window,
                                retryAfter |-> undefined]] :
                   updatedBucket \in
                     {[refilled EXCEPT
                         !.tokens = NumberSub(refilled.tokens, NumberOf(1))]}})
        ELSE [bucket |-> refilled,
              result |-> [allowed |-> FALSE,
                          remaining |-> 0,
                          resetTime |-> refilled.lastRefill + refilled.window,
                          retryAfter |->
                            NumberCeil(NumberDiv(NumberSub(NumberOf(1), refilled.tokens),
                                                 refilled.refillRate))]] :
        refilled \in {refillBucketRounded(bucket, t)}})

\* RateLimiterSync.getBucket(key) at time t: the bucket, and the storage
\* with the bucket it created when the key was absent
SyncGetBucketRounded(store, key, t) ==
  IF key \notin DOMAIN store
  THEN Only({[bucket |-> newBucket, data |-> StorageSet(store, key, newBucket)] :
             newBucket \in {createBucketOfNumbers(cfg.requests, cfg.window,
                                                  cfg.burst, t)}})
  ELSE [bucket |-> store[key], data |-> store]

\* RateLimiterSync.consume(ctx): the bucket is stored when the result is
\* allowed.  obs.owed is the least t + retryAfter over the consumes denied
\* since the last allowed one.
SyncConsumeRounded(ctx) ==
  /\ \E key \in {keyGenerator(ctx)} :
       \E got \in {SyncGetBucketRounded(syncData, key, now)} :
         \E consumeResult \in {consumeTokenRounded(got.bucket, now)} :
           /\ syncData' = IF consumeResult.result.allowed
                          THEN SyncSetBucket(got.data, key, consumeResult.bucket)
                          ELSE got.data
           /\ last' = [NoCall EXCEPT !.op = "consume",
                                     !.key = key,
                                     !.res = ConsumeResult(consumeResult, key),
                                     !.g = obs]
           /\ obs' = [obs EXCEPT
                        !.owed = IF consumeResult.result.allowed THEN undefined
                                 ELSE IF @ = undefined
                                 THEN now + consumeResult.result.retryAfter
                                 ELSE Min(@, now + consumeResult.result.retryAfter)]
  /\ UNCHANGED <<cfg, now, watch, data, calls, custom, unit>>

SyncRoundedMaxWindow == 14
SyncRoundedMaxTime == 14

\* the configs passed to RateLimiterSync.create
SyncRoundedConfigs == [requests : {1}, window : 1..SyncRoundedMaxWindow, burst : 0..MaxBurst]

\* the contexts of the calls: one key
SyncRoundedContexts == [clientId : {""}, resource : {""}]

InitSyncRounded ==
  /\ cfg \in SyncRoundedConfigs
  /\ now = 0
  /\ syncData = EmptyMap
  /\ data = EmptyMap
  /\ calls = [p \in Procs |-> Idle]
  /\ watch \in [what : {"owed"}, key : {keyGenerator(ctx) : ctx \in SyncRoundedContexts}]
  /\ last = NoCall
  /\ obs = NoObs
  /\ hasClear = TRUE
  /\ outcome = NoOutcome
  /\ state = NoState
  /\ runs = [p \in Procs |-> NoRun]
  /\ started = 0

\* one millisecond passes
SyncTickRounded ==
  /\ now < SyncRoundedMaxTime
  /\ now' = now + 1
  /\ last' = NoCall
  /\ UNCHANGED <<cfg, syncData, data, calls, watch, obs, custom, unit>>

NextSyncRounded ==
  \/ \E ctx \in SyncRoundedContexts : SyncConsumeRounded(ctx)
  \/ SyncTickRounded

\* RateLimiterSync on buckets of numbers, consume calls on one key
SpecSyncRounded == InitSyncRounded /\ [][NextSyncRounded]_vars
(* ============================== claims ================================ *)

\* the n-th consume on a bucket created in this millisecond
FreshSequence(n, res) ==
  /\ n \in 1..BurstCapacity =>
       res.allowed /\ res.remaining = BurstCapacity - n
  /\ n = BurstCapacity + 1 =>
       ~res.allowed /\ res.remaining = 0 /\ res.retryAfter > 0

\* C1: on a freshly created bucket and with no elapsed time, the first
\* requests + burst consume calls are allowed with remaining counting down
\* requests + burst - 1, ..., 0, and the next one is denied with
\* remaining = 0 and retryAfter > 0.
C1_FreshBucketSequence ==
  (last.op = "consume" /\ obs.streak # undefined) =>
    FreshSequence(obs.streak, last.res)

C1_Witness ==
  /\ last.op = "consume"
  /\ obs.streak = BurstCapacity + 1
  /\ ~last.res.allowed
  /\ cfg.burst > 0
  /\ cfg.requests > 1

\* C2: the same calls made one after another at the same clock times on
\* the RateLimiterSync and on the RateLimiter return the same results and
\* leave the same buckets in the two storages.
C2_SameResults ==
  /\ calls[1].pc = "done" =>
       /\ calls[1].op = last.op
       /\ calls[1].res = last.res
       /\ calls[1].stats = last.stats
  /\ calls[1].pc \in {"idle", "done"} => data = syncData

C2_Witness ==
  /\ calls[1].pc = "done"
  /\ calls[1].op = "consume"
  /\ ~calls[1].res.allowed
  /\ calls[1].res.retryAfter > 0
  /\ now > calls[1].bucket.lastRefill
  /\ Cardinality(DOMAIN data) > 1

\* no call of the RateLimiter is between its read and its write of a bucket
Settled == \A p \in Procs : calls[p].pc \in {"idle", "done"}

\* C3: with the default MemoryStorage, of the concurrent consume calls made
\* on one key with no elapsed time at most requests + burst are allowed, and
\* once they have returned the stored token count shows every allowed call.
C3_DefaultStorageSerializes ==
  obs.clean =>
    /\ obs.admitted <= BurstCapacity
    /\ (Settled /\ watch.key \in DOMAIN data) =>
         data[watch.key].tokens = FromInt(BurstCapacity - obs.admitted)

\* p and q are two consume calls that read the same bucket and both returned
\* allowed
BothAdmitted(p, q) ==
  /\ p # q
  /\ calls[p].pc = "done" /\ calls[q].pc = "done"
  /\ calls[p].op = "consume" /\ calls[q].op = "consume"
  /\ calls[p].res.allowed /\ calls[q].res.allowed
  /\ calls[p].bucket = calls[q].bucket

\* C4: when two concurrent consume calls on a key read the same bucket, both
\* are allowed and the later write replaces the earlier: with no elapsed
\* time the stored bucket is the one they read less a single token.
C4_LostUpdate ==
  \A p, q \in Procs :
    (obs.clean /\ BothAdmitted(p, q)) =>
      StorageGet(data, watch.key) =
        [calls[p].bucket EXCEPT !.tokens = RSub(@, FromInt(1))]

\* two calls were admitted on a bucket of one token
C4_Witness ==
  /\ obs.clean
  /\ BothAdmitted(1, 2)
  /\ obs.admitted = 2
  /\ BurstCapacity = 1
  /\ data[watch.key].tokens = FromInt(0)

\* C5: after a consume denied at t with retryAfter r and no allowed consume
\* on the key since, a consume at any time >= t + r is allowed.
C5_RetryAfterSuffices ==
  (last.op = "consume" /\ last.g.owed # undefined /\ now >= last.g.owed) =>
    last.res.allowed

\* the promised consume succeeds on tokens refilled gradually: the bucket was
\* neither removed nor refilled by a full window in between
C5_Witness ==
  /\ last.op = "consume"
  /\ last.g.owed = now
  /\ last.res.allowed
  /\ watch.key \in DOMAIN syncData
  /\ RLt(syncData[watch.key].tokens, FromInt(BurstCapacity - 1))

\* what consume returns on a key whose stored bucket is pre (null: absent)
ConsumeOn(pre, key) ==
  ConsumeResult(
    consumeToken(IF pre = null
                 THEN createBucket(cfg.requests, cfg.window, cfg.burst, now)
                 ELSE pre, now),
    key)

\* C6: a check that directly follows a check on the same key in the same
\* millisecond reports the same allowed and remaining, and a consume that
\* follows any number of checks returns what it would have returned on the
\* bucket stored before them.
C6_CheckIdempotent ==
  /\ (last.op = "check" /\ last.g.chkSame) =>
       /\ last.res.allowed = last.g.chkAllowed
       /\ last.res.remaining = last.g.chkRemaining
  /\ (last.op = "consume" /\ last.g.chkRun) =>
       last.res = ConsumeOn(last.g.chkPre, watch.key)

\* a consume after a run of checks, a full window after the last refill
C6_Witness ==
  /\ last.op = "consume"
  /\ last.g.chkRun
  /\ last.g.chkPre # null
  /\ now - last.g.chkPre.lastRefill >= cfg.window
  /\ last.res.remaining = BurstCapacity - 1

\* a repeated check in one millisecond on a bucket that is no longer full
C6_WitnessCheck ==
  /\ last.op = "check"
  /\ last.g.chkSame
  /\ last.res.remaining < BurstCapacity

\* what check, consume and stats would return on key over the storage store
WouldReturn(store, key) ==
  LET bucket == SyncGetBucket(store, key, now).bucket
  IN  <<CheckResult(bucket, key, now),
        ConsumeResult(consumeToken(bucket, now), key),
        StatsResult(bucket, now)>>

OthersUnchanged(key) ==
  \A k \in Keys \ {key} :
    /\ StorageGet(syncData', k) = StorageGet(syncData, k)
    /\ WouldReturn(syncData', k) = WouldReturn(syncData, k)

\* C7: check, consume, reset and stats on a key change neither the stored
\* bucket of any other key nor what a call on another key returns.
C7_BucketIsolation ==
  [][/\ \A ctx \in Contexts :
          (SyncCheck(ctx) \/ SyncConsume(ctx)) => OthersUnchanged(keyGenerator(ctx))
     /\ \A key \in Keys :
          (SyncStats(key) \/ SyncReset(key)) => OthersUnchanged(key)]_vars

\* one key is exhausted while another, created no later, is still full
C7_Witness ==
  \E a, b \in DOMAIN syncData :
    /\ a # b
    /\ syncData[a].tokens = FromInt(0)
    /\ syncData[b].tokens = FromInt(BurstCapacity)
    /\ syncData[b].lastRefill <= syncData[a].lastRefill

\* C8: after reset(key) the key is absent as if never used: the next check
\* reports remaining = requests + burst, and the consumes on the bucket the
\* next access creates follow the sequence of a fresh bucket.
C8_ResetRestores ==
  /\ last.op = "reset" => watch.key \notin DOMAIN syncData
  /\ (last.op = "check" /\ last.g.life = "reset") =>
       /\ last.res.allowed
       /\ last.res.remaining = BurstCapacity
       /\ last.res.resetTime = now + cfg.window
  /\ (last.op = "consume" /\ last.g.life = "reset") =>
       /\ last.res.allowed
       /\ last.res.remaining = BurstCapacity - 1
  /\ (last.op = "consume" /\ obs.life = "reborn" /\ obs.streak # undefined) =>
       FreshSequence(obs.streak, last.res)

C8_Witness ==
  /\ last.op = "consume"
  /\ obs.life = "reborn"
  /\ obs.streak = BurstCapacity + 1
  /\ ~last.res.allowed
  /\ now > 0

\* C9: the first check, consume or stats(key) on a key absent from storage
\* creates and stores a bucket with tokens = burstCapacity = requests +
\* burst, capacity = requests, refillRate = requests / window and
\* lastRefill = now, so that storage holds one key more; a key that was never
\* accessed has no bucket.
C9_LazyCreation ==
  /\ obs.life = "never" => watch.key \notin DOMAIN syncData
  /\ (last.op \in {"check", "consume", "stats"} /\ last.absent) =>
       /\ last.created =
            [tokens |-> FromInt(cfg.requests + cfg.burst),
             capacity |-> cfg.requests,
             burstCapacity |-> cfg.requests + cfg.burst,
             lastRefill |-> now,
             window |-> cfg.window,
             refillRate |-> Rat(cfg.requests, cfg.window)]
       /\ watch.key \in DOMAIN syncData
       /\ Cardinality(DOMAIN syncData) = last.size + 1
       /\ last.op # "consume" => syncData[watch.key] = last.created

C9_Witness ==
  /\ last.op = "stats"
  /\ last.absent
  /\ last.g.life = "never"
  /\ last.size = 0
  /\ now > 0
  /\ Cardinality(DOMAIN syncData) = 1

\* C10: every stored bucket has 0 <= tokens <= burstCapacity, refillRate =
\* capacity / window and burstCapacity = capacity + burst.
C10_BucketInvariant ==
  \A k \in DOMAIN syncData :
    LET b == syncData[k]
    IN  /\ RLeq(FromInt(0), b.tokens)
        /\ RLeq(b.tokens, FromInt(b.burstCapacity))
        /\ RMul(b.refillRate, FromInt(b.window)) = FromInt(b.capacity)
        /\ b.burstCapacity = b.capacity + cfg.burst

\* a bucket stored with a fractional token count below one
C10_Witness ==
  \E k \in DOMAIN syncData :
    /\ RLt(FromInt(0), syncData[k].tokens)
    /\ RLt(syncData[k].tokens, FromInt(1))

\* C11: once at least window ms have elapsed since a stored bucket's
\* lastRefill, its post-refill token count is exactly burstCapacity whatever
\* it held: check reports remaining = burstCapacity > 0 and a consume is
\* allowed.
C11_FullWindowRefill ==
  \A k \in DOMAIN syncData :
    LET b == syncData[k]
    IN  now - b.lastRefill >= b.window =>
          /\ refillBucket(b, now).tokens = FromInt(b.burstCapacity)
          /\ getBucketInfo(b, now).tokens = b.burstCapacity
          /\ CheckResult(b, k, now).allowed
          /\ CheckResult(b, k, now).remaining = BurstCapacity
          /\ ConsumeResult(consumeToken(b, now), k).allowed

\* an exhausted bucket with burst allowance, one window later
C11_Witness ==
  \E k \in DOMAIN syncData :
    /\ syncData[k].tokens = FromInt(0)
    /\ now - syncData[k].lastRefill >= cfg.window
    /\ cfg.burst > 0

\* the post-refill token count of bucket at time t
TokensAt(bucket, t) == refillBucket(bucket, t).tokens

\* C12: for a stored bucket left untouched, the post-refill token count
\* seen at a later time is never less than the one seen earlier and never
\* more than burstCapacity; the same holds of the floored count that
\* getBucketInfo reports.
C12_RefillMonotonic ==
  \A k \in DOMAIN syncData :
    LET b == syncData[k]
    IN  \A t1, t2 \in now..(MaxTime + 1) :
          t1 < t2 =>
            /\ RLeq(TokensAt(b, t1), TokensAt(b, t2))
            /\ RLeq(TokensAt(b, t2), FromInt(b.burstCapacity))
            /\ getBucketInfo(b, t1).tokens <= getBucketInfo(b, t2).tokens
            /\ getBucketInfo(b, t2).tokens <= b.burstCapacity

\* a bucket whose count grows strictly between two times, below its bound
C12_Witness ==
  \E k \in DOMAIN syncData :
    \E t1, t2 \in now..(MaxTime + 1) :
      /\ t1 < t2
      /\ RLt(TokensAt(syncData[k], t1), TokensAt(syncData[k], t2))
      /\ RLt(TokensAt(syncData[k], t2), FromInt(syncData[k].burstCapacity))
      /\ RLt(FromInt(0), syncData[k].tokens)

\* the bucket a call at this moment works on, given the stored bucket pre
BucketOf(pre) ==
  IF pre = null THEN createBucket(cfg.requests, cfg.window, cfg.burst, now) ELSE pre

\* C13: with a storage that works, check and consume never throw: whatever
\* the bucket holds they return a result, and a request that is not allowed
\* is a result with allowed = FALSE (consume: fewer than one token after
\* refill; check: a floored token count of 0).
C13_DenialIsAResult ==
  (outcome.op \in {"check", "consume"} /\ outcome.failAt = 0) =>
    /\ ~outcome.threw
    /\ outcome.error = NoError
    /\ outcome.res.key = outcome.key
    /\ outcome.op = "consume" =>
         (outcome.res.allowed <=>
            RLeq(FromInt(1), TokensAt(BucketOf(outcome.pre), now)))
    /\ outcome.op = "check" =>
         (outcome.res.allowed <=>
            Floor(TokensAt(BucketOf(outcome.pre), now)) > 0)

\* a consume denied on an exhausted bucket of a valid configuration
C13_Witness ==
  /\ outcome.op = "consume"
  /\ outcome.failAt = 0
  /\ ~outcome.threw
  /\ ~outcome.res.allowed
  /\ outcome.res.remaining = 0
  /\ cfg.requests > 0

\* the storage method called n-th by the method op
MethodAt(op, n) ==
  IF op = "reset" THEN "delete" ELSE IF n = 1 THEN "get" ELSE "set"

\* C14: when the failAt-th storage call of check, consume, reset or
\* stats(key) throws, the method throws that same error, returns nothing and
\* has made no storage call after the failing one: storage holds what the
\* calls before it left (the fresh bucket when the write-back of a consume on
\* an absent key failed, else what it held before).
C14_StorageErrorsPropagate ==
  (outcome.op \in {"check", "consume", "stats", "reset"} /\ outcome.failAt > 0) =>
    /\ outcome.threw
    /\ outcome.error = StorageFailure(MethodAt(outcome.op, outcome.failAt))
    /\ outcome.storageCalls = outcome.failAt
    /\ outcome.res = NoResult
    /\ outcome.stats = NoStats
    /\ StorageGet(syncData, outcome.key) =
         IF outcome.failAt = 3
         THEN createBucket(cfg.requests, cfg.window, cfg.burst, now)
         ELSE outcome.pre

\* the write-back of an allowed consume on an absent key failed
C14_Witness ==
  /\ outcome.op = "consume"
  /\ outcome.failAt = 3
  /\ outcome.threw
  /\ outcome.error = StorageFailure("set")
  /\ outcome.pre = null
  /\ outcome.key \in DOMAIN syncData

\* C15: create() with requests <= 0 or window <= 0 fails: no limiter exists
\* with such a configuration and no check or consume has stored a bucket
\* under it.
C15_ConfigurationValidated ==
  (cfg.requests <= 0 \/ cfg.window <= 0) =>
    /\ ~Created
    /\ syncData = EmptyMap

C20_WitnessClear ==
  /\ outcome.op = "cleanup"
  /\ hasClear
  /\ Cardinality(DOMAIN outcome.before) = 2
  /\ syncData = EmptyMap


(* ----------------- AsyncRateLimiter: limit, limitWithRetry ------------- *)
\* the callers that called fn
Calling(fn) == {p \in Procs : runs[p].fn = fn}

\* the call has come back from checkLimit
Checked(run) == run.pc \in {"operation", "sleep", "done"}

\* the call ended by throwing a RateLimitError that carries result
Exceeded(run, result) ==
  /\ run.pc = "done"
  /\ run.end = "threw"
  /\ run.error = "RateLimitError"
  /\ run.thrown = result

\* the call ended as its operation did
EndedAsOperation(run) ==
  /\ run.pc = "done"
  /\ \/ run.end = "returned" /\ run.value = "value"
     \/ run.end = "threw" /\ run.error = "OperationError"

\* C16: limit(operation, context) consumes exactly once; when the consume is
\* allowed it runs the operation once and ends as the operation does; when it
\* is denied it throws a RateLimitError carrying the denial result, with its
\* retryAfter, as soon as checkLimit has returned, without running the
\* operation, sleeping or consuming again
C16_LimitConsumesOnce ==
  \A p \in Calling("limit") :
    LET run == runs[p]
    IN  /\ run.consumes = IF run.pc \in {"get", "set"} THEN 0 ELSE 1
        /\ run.slept = 0
        /\ run.ran = IF Checked(run) /\ run.result.allowed THEN 1 ELSE 0
        /\ Checked(run) /\ run.result.allowed =>
             \/ run.pc = "operation"
             \/ EndedAsOperation(run)
        /\ Checked(run) /\ ~run.result.allowed =>
             /\ Exceeded(run, run.result)
             /\ run.thrown.retryAfter >= 1

\* limit was denied and has thrown
C16_Witness ==
  \E p \in Calling("limit") :
    /\ ~runs[p].result.allowed
    /\ Exceeded(runs[p], runs[p].result)
    /\ runs[p].consumes = 1

\* limit was allowed and has returned the value of the operation
C16_WitnessAllowed ==
  \E p \in Calling("limit") :
    /\ runs[p].result.allowed
    /\ runs[p].pc = "done"
    /\ runs[p].end = "returned"
    /\ runs[p].value = "value"

\* C17: limitWithRetry(operation, context, maxRetries) consumes at most
\* maxRetries + 1 times; every attempt before an allowed one was denied, the
\* operation is invoked once, as soon as checkLimit has returned an allowed
\* result, and no attempt follows; when maxRetries + 1 attempts have been
\* denied the call throws a RateLimitError carrying the last denial result
C17_BoundedAttempts ==
  \A p \in Calling("limitWithRetry") :
    LET run == runs[p]
    IN  run.maxRetries >= 0 =>
          /\ run.consumes <= run.maxRetries + 1
          /\ run.ran = IF Checked(run) /\ run.result.allowed THEN 1 ELSE 0
          /\ run.result.allowed =>
               /\ run.attempts = run.consumes - 1
               /\ run.pc \in {"stats", "size", "operation", "done"}
               /\ run.pc = "done" => EndedAsOperation(run)
          /\ (Checked(run) /\ ~run.result.allowed
                /\ run.consumes = run.maxRetries + 1) =>
               Exceeded(run, run.result)

\* a limitWithRetry with retries was denied at every attempt and has thrown
C17_Witness ==
  \E p \in Calling("limitWithRetry") :
    /\ runs[p].maxRetries >= 1
    /\ runs[p].consumes = runs[p].maxRetries + 1
    /\ Exceeded(runs[p], runs[p].result)
    /\ ~runs[p].result.allowed

\* a limitWithRetry ran the operation after a denied attempt
C17_WitnessAllowed ==
  \E p \in Calling("limitWithRetry") :
    /\ runs[p].consumes >= 2
    /\ runs[p].result.allowed
    /\ runs[p].pc = "done"
    /\ runs[p].end = "returned"

\* C18: a limitWithRetry whose attempt was denied at time at, with
\* retryAfter, makes its next attempt no earlier than at + retryAfter: it
\* sleeps from the time checkLimit returned until retryAfter later, and it
\* consumes again only after that
C18_WaitsRetryAfter ==
  [][\A p \in Calling("limitWithRetry") :
       /\ runs'[p].pc = "sleep" =>
            /\ runs'[p].wakeAt >= runs'[p].at + runs'[p].result.retryAfter
            /\ runs'[p].result.retryAfter >= 1
       /\ (runs[p].pc = "sleep" /\ runs'[p].pc # "sleep") =>
            now >= runs[p].at + runs[p].result.retryAfter
       /\ (runs[p].consumes >= 1 /\ runs'[p].consumes = runs[p].consumes + 1) =>
            now >= runs[p].at + runs[p].result.retryAfter]_vars

\* while a limitWithRetry sleeps, another caller has consumed: its consume
\* was made after the sleep began and the sleeper has not resumed
C18_Witness ==
  \E p \in Calling("limitWithRetry"), q \in Procs :
    /\ q # p
    /\ runs[p].pc = "sleep"
    /\ runs[q].consumes >= 1
    /\ runs[q].at > runs[p].wakeAt - runs[p].result.retryAfter
    /\ runs[q].at < runs[p].wakeAt

\* a limitWithRetry has consumed again after its sleep
C18_WitnessNext ==
  \E p \in Calling("limitWithRetry") :
    /\ runs[p].consumes >= 2
    /\ runs[p].slept >= 1

\* the calls of limitWithRetry with maxRetries = 2 whose first attempt was
\* denied (at an exhausted bucket)
DeniedFirst ==
  {p \in Calling("limitWithRetry") :
     runs[p].maxRetries = 2 /\ runs[p].attempts >= 1}

\* C19 (as stated): a limitWithRetry with maxRetries = 2 whose first attempt
\* was denied ends by throwing RateLimitError, never by returning the result
\* of the operation
C19_AlwaysRaises ==
  \A p \in DeniedFirst :
    runs[p].pc = "done" =>
      /\ runs[p].end = "threw"
      /\ runs[p].error = "RateLimitError"

\* C19 (amended): a limitWithRetry with maxRetries = 2 whose first attempt was
\* denied makes at most 3 attempts and throws RateLimitError exactly when
\* the second and the third attempt were denied too; when one of them is
\* allowed it runs the operation and ends as the operation does
C19_RaisesWhenAllDenied ==
  \A p \in DeniedFirst :
    LET run == runs[p]
    IN  /\ run.consumes <= 3
        /\ run.pc = "done" =>
             /\ (run.end = "threw" /\ run.error = "RateLimitError") <=>
                  (run.consumes = 3 /\ ~run.result.allowed)
             /\ Exceeded(run, run.result) \/ (run.result.allowed /\ EndedAsOperation(run))

\* the first attempt was denied, the second was allowed and the call has
\* returned the value of the operation
C19_Witness ==
  \E p \in DeniedFirst :
    /\ runs[p].pc = "done"
    /\ runs[p].consumes = 2
    /\ runs[p].end = "returned"
    /\ runs[p].value = "value"

\* all three attempts were denied and the call has thrown
C19_WitnessRaised ==
  \E p \in DeniedFirst :
    /\ runs[p].consumes = 3
    /\ Exceeded(runs[p], runs[p].result)

(* ------------------- instances sharing a storage ----------------------- *)
\* C21: the bucket of a key lives in the storage, not in the limiter: while
\* no time elapses, after n consume calls on the bucket of a key, made
\* through whatever instances were created over the storage, a check or
\* consume through the present instance reports what is left of the stored
\* bucket, burstCapacity - min(n, burstCapacity) of the instance that created
\* it, and a consume is allowed exactly when n <= that burstCapacity
C21_BucketLivesInStorage ==
  (last.op \in {"check", "consume"} /\ obs.streak # undefined) =>
    LET stored == StorageGet(syncData, watch.key)
        left == stored.burstCapacity - Min(obs.streak, stored.burstCapacity)
    IN  /\ stored # null
        /\ last.res.remaining = left
        /\ last.op = "consume" => (last.res.allowed <=> obs.streak <= stored.burstCapacity)
        /\ last.op = "check" => (last.res.allowed <=> left > 0)

\* an instance of another config checks a bucket consumed from through an
\* earlier instance
C21_Witness ==
  /\ obs.shared
  /\ last.op = "check"
  /\ obs.streak >= 1
  /\ StorageGet(syncData, watch.key).burstCapacity # BurstCapacity
  /\ last.res.remaining = StorageGet(syncData, watch.key).burstCapacity - obs.streak

\* a consume through a later instance is denied for the tokens taken earlier
C21_WitnessDenied ==
  /\ obs.shared
  /\ last.op = "consume"
  /\ ~last.res.allowed
  /\ BurstCapacity > StorageGet(syncData, watch.key).burstCapacity

(* ---------------------- contexts and their keys ------------------------ *)
\* the words a key is made of
KeyWords(ctx) ==
  <<IF ctx.clientId = "" THEN "default" ELSE ctx.clientId,
    IF ctx.resource = "" THEN "global" ELSE ctx.resource>>

\* the call recorded in outcome was made on the bucket stored under its key:
\* the storage differs from the storage before the call at that key at most,
\* and the result is what the bucket stored there admits
KeyedCall ==
  LET res == outcome.res
      words == KeyWords(outcome.ctx)
      stored == StorageGet(syncData, res.key)
  IN  /\ res.key = words[1] \o ":" \o words[2]
      /\ outcome.ctx = [clientId |-> "", resource |-> ""] => res.key = "default:global"
      /\ stored # null
      /\ DOMAIN syncData = DOMAIN outcome.before \cup {res.key}
      /\ \A k \in DOMAIN outcome.before : k # res.key => syncData[k] = outcome.before[k]
      /\ res.remaining = Floor(stored.tokens)
      /\ outcome.op = "consume" =>
           (res.allowed <=> outcome.pre = null \/ RLeq(FromInt(1), outcome.pre.tokens))

\* C22: the key of a check or consume is clientId (or "default"), ':',
\* resource (or "global"); an empty context has the key "default:global";
\* the key in the result is the key of the bucket the call read, created or
\* wrote; a context has the same key at every call
C22_DefaultKey ==
  [][outcome'.op \in {"check", "consume"} =>
       /\ KeyedCall'
       /\ (outcome.op # "none" /\ outcome.ctx = outcome'.ctx) =>
            outcome'.res.key = outcome.res.key]_vars

\* a consume with a context that names "default" and "global" in so many
\* words is denied for the tokens taken with the empty context
C22_Witness ==
  /\ outcome.op = "consume"
  /\ outcome.ctx = [clientId |-> "default", resource |-> "global"]
  /\ outcome.res.key = "default:global"
  /\ ~outcome.res.allowed
  /\ Cardinality(DOMAIN syncData) >= 3

\* a context with a client and a resource has a key of its own
C22_WitnessResource ==
  /\ outcome.op = "check"
  /\ outcome.res.key = "a:r"
  /\ outcome.pre # null

(* ------------------------------ stats(key) ----------------------------- *)
\* C23: stats(key) reports totalRequests = allowedRequests = burstCapacity -
\* floor(post-refill tokens) of the bucket of the key, rejectedRequests = 0
\* and totalKeys = 1; after n consume calls on a bucket created in this
\* millisecond it reports min(n, burstCapacity), the number of the allowed
\* ones: the denied ones do not count
C23_StatsOfKey ==
  last.op = "stats" =>
    LET stored == StorageGet(syncData, last.key)
        tokens == refillBucket(stored, now).tokens
    IN  /\ stored # null
        /\ last.stats.totalRequests = BurstCapacity - Floor(tokens)
        /\ last.stats.allowedRequests = last.stats.totalRequests
        /\ last.stats.rejectedRequests = 0
        /\ last.stats.totalKeys = 1
        /\ obs.streak # undefined =>
             last.stats.totalRequests = Min(obs.streak, BurstCapacity)

\* stats(key) after a denied consume reports the allowed ones only
C23_Witness ==
  /\ last.op = "stats"
  /\ obs.streak = BurstCapacity + 1
  /\ last.stats.totalRequests = BurstCapacity
  /\ BurstCapacity >= 2

\* stats(key) after one allowed consume reports one request
C23_WitnessOne ==
  /\ last.op = "stats"
  /\ obs.streak = 1
  /\ last.stats.totalRequests = 1
  /\ last.stats.totalKeys = 1

(* ------------------------------ resetTime ------------------------------ *)
\* C24: the resetTime of every consume result, allowed or denied, is the
\* time of the call plus the window: refill stamps the bucket with the time
\* of the call whatever it adds, so that lastRefill + window of the refilled
\* bucket is one window ahead, also when the bucket in storage keeps an
\* older stamp (a denied consume) and when the bucket is full earlier
C24_ResetTimeIsNowPlusWindow ==
  last.op = "consume" =>
    LET stored == StorageGet(syncData, last.key)
    IN  /\ last.res.resetTime = now + cfg.window
        /\ last.res.resetTime = refillBucket(stored, now).lastRefill + stored.window
        /\ last.res.allowed => last.res.resetTime = stored.lastRefill + stored.window

\* a denied consume on a bucket stamped earlier
C24_Witness ==
  /\ last.op = "consume"
  /\ ~last.res.allowed
  /\ StorageGet(syncData, last.key).lastRefill < now
  /\ last.res.resetTime = now + cfg.window

\* an allowed consume after which the bucket is full again before resetTime
C24_WitnessFullEarlier ==
  /\ last.op = "consume"
  /\ last.res.allowed
  /\ cfg.window >= 2
  /\ TokensAt(StorageGet(syncData, last.key), last.res.resetTime - 1)
       = FromInt(BurstCapacity)

\* C25: resetTime is a time at which the bucket has fully reset: a check made
\* at or after the resetTime of a check or consume result on the key, with no
\* consume allowed on the key since that result, reports remaining =
\* burstCapacity
C25_FullAtResetTime ==
  (last.op = "check" /\ last.g.due # undefined /\ now >= last.g.due) =>
    /\ last.res.remaining = BurstCapacity
    /\ last.res.allowed

\* a check at the very resetTime of the consume that emptied a bucket with a
\* burst allowance
C25_Witness ==
  /\ last.op = "check"
  /\ last.g.due = now
  /\ cfg.burst > 0
  /\ StorageGet(syncData, last.key).tokens = FromInt(0)
  /\ last.res.remaining = BurstCapacity

\* a check after the resetTime of a result that left no stamp in storage (a
\* check or a denied consume)
C25_WitnessUnstamped ==
  /\ last.op = "check"
  /\ last.g.due # undefined
  /\ now >= last.g.due
  /\ StorageGet(syncData, last.key).lastRefill + cfg.window < last.g.due

(* ------------------------------ retryAfter ----------------------------- *)
\* C26 (as stated): after a consume denied at t with retryAfter r and no
\* allowed consume on the key since, a consume at t + r - 1 is still denied
C26_DeniedBeforeRetryAfter ==
  (last.op = "consume" /\ last.g.owed # undefined /\ now = last.g.owed - 1) =>
    ~last.res.allowed

\* C26 (amended): retryAfter of a denied consume is ceil((1 - post-refill
\* tokens) / refillRate), and after a consume denied at t with retryAfter r,
\* with no allowed consume on the key, no reset of the key and no cleanup
\* since, a consume at any time before t + r, t + r - 1 included, is denied
C26_MinimalWait ==
  last.op = "consume" =>
    LET stored == StorageGet(syncData, last.key)
    IN  /\ ~last.res.allowed =>
             last.res.retryAfter =
               Ceil(RDiv(RSub(FromInt(1), TokensAt(stored, now)), stored.refillRate))
        /\ (last.g.waitUntil # undefined /\ now < last.g.waitUntil) =>
             ~last.res.allowed

\* a consume one millisecond before the end of a wait of two or more is
\* denied
C26_Witness ==
  /\ last.op = "consume"
  /\ last.g.waitUntil # undefined
  /\ now = last.g.waitUntil - 1
  /\ last.g.deniedAt < now
  /\ ~last.res.allowed
  /\ last.res.retryAfter = 1

(* --------------------------- what the calls write ---------------------- *)
\* the bucket a call on key finds at time t: the stored one, or the one
\* getBucket creates
FoundBucket(store, key, t) ==
  IF key \in DOMAIN store THEN store[key]
  ELSE createBucket(cfg.requests, cfg.window, cfg.burst, t)

\* C27: a check on a key that has a stored bucket leaves the storage as it
\* was, refill and token count included; a check on an absent key writes
\* the new bucket under the key and nothing else
C27_CheckWritesOnlyCreation ==
  [][last'.op = "check" =>
       IF last'.key \in DOMAIN syncData
       THEN syncData' = syncData
       ELSE /\ DOMAIN syncData' = DOMAIN syncData \cup {last'.key}
            /\ \A k \in DOMAIN syncData : syncData'[k] = syncData[k]
            /\ syncData'[last'.key] = FoundBucket(syncData, last'.key, now)]_vars

\* a check reported the tokens refilled since the stamp of a bucket that is
\* stored with the old stamp and the old token count still
C27_Witness ==
  /\ last.op = "check"
  /\ last.g.chkRun
  /\ last.g.chkPre # null
  /\ syncData[last.key] = last.g.chkPre
  /\ syncData[last.key].lastRefill < now
  /\ last.res.remaining > Floor(syncData[last.key].tokens)

\* C28: a consume writes the bucket back exactly when its result is allowed,
\* and then the stored bucket holds the post-refill tokens less one, stamped
\* now; a denied consume on a key that has a bucket leaves the storage as it
\* was
C28_ConsumeWritesWhenAllowed ==
  [][last'.op = "consume" =>
       LET key == last'.key
           found == FoundBucket(syncData, key, now)
       IN  /\ DOMAIN syncData' = DOMAIN syncData \cup {key}
           /\ \A k \in DOMAIN syncData \ {key} : syncData'[k] = syncData[k]
           /\ last'.res.allowed =>
                syncData'[key] =
                  [found EXCEPT !.tokens = RSub(TokensAt(found, now), FromInt(1)),
                                !.lastRefill = now]
           /\ ~last'.res.allowed => syncData'[key] = found]_vars

\* an allowed consume some time after the stamp of a bucket that was not
\* full: the bucket is stored with the refilled tokens less one, stamped now
C28_Witness ==
  /\ last.op = "consume"
  /\ last.res.allowed
  /\ last.g.chkRun
  /\ last.g.chkPre # null
  /\ last.g.chkPre.lastRefill < now
  /\ ~RLeq(FromInt(1), last.g.chkPre.tokens)
  /\ syncData[last.key].lastRefill = now
  /\ syncData[last.key].tokens # last.g.chkPre.tokens

\* a denied consume some time after the stamp of the stored bucket, which
\* keeps its stamp
C28_WitnessDenied ==
  /\ last.op = "consume"
  /\ ~last.res.allowed
  /\ syncData[last.key].lastRefill < now
  /\ ~RLeq(TokensAt(syncData[last.key], now), FromInt(0))

(* ------------------------------ check's result ------------------------- *)
\* the post-refill token count of the bucket the check recorded in last
\* found: check leaves that bucket in the storage
CheckedTokens == TokensAt(syncData[last.key], now)

\* C29 (as stated): check returns allowed = (post-refill tokens > 0),
\* remaining = floor(post-refill tokens), and retryAfter = nextRefill - now
\* when the post-refill tokens are 0 and 0 otherwise, fractional counts
\* between 0 and 1 included
C29_CheckOnTokenCount ==
  last.op = "check" =>
    /\ last.res.allowed = RLt(FromInt(0), CheckedTokens)
    /\ last.res.remaining = Floor(CheckedTokens)
    /\ last.res.retryAfter = IF RLeq(CheckedTokens, FromInt(0))
                             THEN last.res.resetTime - now ELSE 0

\* C29 (amended): check returns allowed = (floor(post-refill tokens) > 0),
\* remaining = floor(post-refill tokens), and retryAfter = nextRefill - now
\* when that floor is 0 and 0 otherwise; nextRefill is now + window
C29_CheckOnFlooredCount ==
  last.op = "check" =>
    /\ last.res.allowed = (Floor(CheckedTokens) > 0)
    /\ last.res.remaining = Floor(CheckedTokens)
    /\ last.res.resetTime = now + cfg.window
    /\ last.res.retryAfter = IF Floor(CheckedTokens) = 0
                             THEN last.res.resetTime - now ELSE 0

\* a check of a bucket holding a fraction of a token: not allowed, retryAfter
\* a window
C29_Witness ==
  /\ last.op = "check"
  /\ RLt(FromInt(0), CheckedTokens)
  /\ RLt(CheckedTokens, FromInt(1))
  /\ ~last.res.allowed
  /\ last.res.remaining = 0
  /\ last.res.retryAfter = cfg.window

\* a check of a bucket holding more than one token and a fraction
C29_WitnessFraction ==
  /\ last.op = "check"
  /\ RLt(FromInt(1), CheckedTokens)
  /\ FromInt(Floor(CheckedTokens)) # CheckedTokens
  /\ last.res.allowed
  /\ last.res.retryAfter = 0

(* --------------------- statistics of the AsyncRateLimiter --------------- *)
\* C30: when the checkLimit calls made since creation or the last reset()
\* have returned, totalRequests = allowedRequests + blockedRequests = the
\* number of those calls, allowedRequests = the number of allowed results,
\* allowRate = allowedRequests / totalRequests (0 when there was no call),
\* and, a checkLimit having returned after the last reset(key), activeBuckets
\* = the number of keys that hold a bucket
C30_StatsTally ==
  NonePending =>
    LET stats == state.stats
    IN  /\ stats.totalRequests = stats.allowedRequests + stats.blockedRequests
        /\ stats.totalRequests = started
        /\ stats.allowedRequests = obs.allowedResults
        /\ ~obs.keyReset => stats.activeBuckets = Cardinality(DOMAIN state.buckets)
        /\ stats.allowRate = IF stats.totalRequests > 0
                             THEN Rat(stats.allowedRequests, stats.totalRequests)
                             ELSE FromInt(0)

\* four calls on two keys have returned, three of them allowed
C30_Witness ==
  /\ NonePending
  /\ started = 4
  /\ state.stats.totalRequests = 4
  /\ state.stats.allowedRequests = 3
  /\ state.stats.blockedRequests = 1
  /\ state.stats.activeBuckets = 2
  /\ state.stats.allowRate = Rat(3, 4)

\* calls counted anew after a reset() that followed a denial
C30_WitnessAfterReset ==
  /\ NonePending
  /\ state.stats.created > 0
  /\ state.stats.totalRequests = 2
  /\ state.stats.blockedRequests = 0
  /\ state.stats.activeBuckets = 1

\* after reset(key) the stats still count the deleted bucket
C30_WitnessKeyReset ==
  /\ NonePending
  /\ obs.keyReset
  /\ state.stats.activeBuckets = 1
  /\ state.buckets = EmptyMap

(* ------------------ a fresh key of the AsyncRateLimiter ----------------- *)
\* p holds the result of its bucket.consume()
Consumed(p) == runs[p].pc \in {"stats", "size", "done"} /\ runs[p].consumes > 0

C31_WitnessFirst ==
  /\ cfg.requests = 3
  /\ cfg.burst = 1
  /\ obs.allowedResults = 1
  /\ \E p, q \in Procs :
       /\ Consumed(p) /\ runs[p].result.allowed /\ runs[p].result.remaining = 2
       /\ runs[q].pc \in {"get", "set"}

(* ----------------------- reset of the AsyncRateLimiter ------------------ *)
\* C32: reset(key) removes the bucket of key and leaves every other bucket
\* and the statistics as they were; reset() removes every bucket and sets
\* totalRequests, allowedRequests and blockedRequests to 0
C32_ResetFrame ==
  [][(last'.op = "reset" /\ (last' # last \/ state' # state)) =>
       IF last'.key # ""
       THEN /\ last'.key \in DOMAIN state.buckets
            /\ DOMAIN state'.buckets = DOMAIN state.buckets \ {last'.key}
            /\ \A k \in DOMAIN state'.buckets : state'.buckets[k] = state.buckets[k]
            /\ state'.stats = state.stats
       ELSE /\ state'.buckets = EmptyMap
            /\ state'.stats.totalRequests = 0
            /\ state'.stats.allowedRequests = 0
            /\ state'.stats.blockedRequests = 0]_vars

\* after reset(key) the bucket of another key and the counts of three calls
\* are still there
C32_Witness ==
  /\ last.op = "reset"
  /\ last.key = "default"
  /\ DOMAIN state.buckets = {"a"}
  /\ state.stats.totalRequests = 3
  /\ state.stats.blockedRequests = 1
  /\ state.stats.activeBuckets = 2

\* after reset() the Map is empty and the counters are 0
C32_WitnessAll ==
  /\ last.op = "reset"
  /\ last.key = ""
  /\ now > 0
  /\ state.stats.created = now
  /\ state.buckets = EmptyMap
  /\ state.stats.totalRequests = 0
  /\ state.stats.activeBuckets = 0

(* ------------------------------ cancellation ---------------------------- *)
\* C33: once the caller of limitWithRetry has asked for cancellation, the
\* call does not wait and does not attempt another consume
C33_CancellationStopsRetry ==
  \A p \in Procs :
    runs[p].cancelled => runs[p].pc \notin {"sleep", "get", "set"}

RECURSIVE AdmittedIn(_, _)
\* the allowed consume calls on the watched key from t1 to t2, both included
AdmittedIn(t1, t2) ==
  IF t1 > t2 THEN 0 ELSE obs.perMs[t1] + AdmittedIn(t1 + 1, t2)

\* C35 (as stated): in any interval of length L the allowed consume calls on
\* one key number at most burstCapacity + L * capacity / window
C35_AtMostCapacityPerWindow ==
  \A t1, t2 \in 0..MaxTime :
    (t1 <= t2 /\ t2 <= now) =>
      AdmittedIn(t1, t2) * cfg.window <=
        BurstCapacity * cfg.window + (t2 - t1) * cfg.requests

\* C35 (amended): in any interval of length L with no reset of the key and
\* no cleanup in it, the allowed consume calls on one key number at most
\* burstCapacity + L * burstCapacity / window
C35_AtMostBurstCapacityPerWindow ==
  \A t1, t2 \in 0..MaxTime :
    (t1 <= t2 /\ t2 <= now) =>
      AdmittedIn(t1, t2) * cfg.window <=
        BurstCapacity * cfg.window + (t2 - t1) * BurstCapacity

\* a bucket with a burst emptied twice, a window apart: twice burstCapacity
\* consume calls allowed in an interval of one window
C35_Witness ==
  /\ cfg.burst > 0
  /\ now >= cfg.window
  /\ obs.perMs[now - cfg.window] = BurstCapacity
  /\ obs.perMs[now] = BurstCapacity

(* ------------------------- check against consume ------------------------ *)
\* C36: at any instant and for any stored bucket, check reports allowed
\* exactly when a consume made at that instant would be allowed, that is
\* when the bucket holds at least one whole token after refill
C36_CheckAgreesWithConsume ==
  \A ctx \in Contexts :
    LET key == keyGenerator(ctx)
        checked == SyncDoCheck(syncData, ctx, now).res
        consumed == SyncDoConsume(syncData, ctx, now).res
        tokens == TokensAt(FoundBucket(syncData, key, now), now)
    IN  /\ checked.allowed = consumed.allowed
        /\ checked.allowed = RLeq(FromInt(1), tokens)

\* a stored bucket that holds a fraction of a token after refill: check and
\* consume both deny
C36_Witness ==
  \E ctx \in Contexts :
    LET key == keyGenerator(ctx)
    IN  /\ key \in DOMAIN syncData
        /\ RLt(FromInt(0), TokensAt(syncData[key], now))
        /\ RLt(TokensAt(syncData[key], now), FromInt(1))
        /\ ~SyncDoCheck(syncData, ctx, now).res.allowed
        /\ ~SyncDoConsume(syncData, ctx, now).res.allowed

\* a check and then a consume in the same millisecond on a bucket that holds
\* a fraction of a token: both denied
C36_WitnessCalls ==
  /\ last.op = "consume"
  /\ last.g.chkSame
  /\ ~last.g.chkAllowed
  /\ ~last.res.allowed
  /\ RLt(FromInt(0), TokensAt(syncData[last.key], now))
  /\ RLt(TokensAt(syncData[last.key], now), FromInt(1))

(* --------------------- the fixed fields of a bucket --------------------- *)
\* C37: from one state of the storage to the next a bucket that stays stored
\* keeps its capacity, burstCapacity, window and refillRate; check, consume
\* and stats change at most its tokens and lastRefill, also when called
\* through a limiter whose requests, window or burst differ from those the
\* bucket was created with
C37_BucketShapeFixed ==
  [][\A k \in DOMAIN syncData \cap DOMAIN syncData' :
       /\ syncData'[k].capacity = syncData[k].capacity
       /\ syncData'[k].burstCapacity = syncData[k].burstCapacity
       /\ syncData'[k].window = syncData[k].window
       /\ syncData'[k].refillRate = syncData[k].refillRate]_vars

\* a consume through a limiter of another configuration was allowed on a
\* bucket it did not create, which is stored with the fields it was created
\* with
C37_Witness ==
  /\ last.op = "consume"
  /\ last.res.allowed
  /\ last.g.shared
  /\ obs.instances > 1
  /\ syncData[last.key].lastRefill = now
  /\ RLt(syncData[last.key].tokens, FromInt(syncData[last.key].burstCapacity))
  /\ \/ syncData[last.key].capacity # cfg.requests
     \/ syncData[last.key].window # cfg.window
     \/ syncData[last.key].burstCapacity # cfg.requests + cfg.burst

(* ------------------- when the operation is invoked ---------------------- *)
\* C38: a call of limit or limitWithRetry invokes its operation at most
\* once, and only when a consume of the call has returned allowed; a call
\* that ends with RateLimitError has not invoked it
C38_OperationOnlyWhenAllowed ==
  \A p \in Calling("limit") \cup Calling("limitWithRetry") :
    LET run == runs[p]
    IN  /\ run.ran <= 1
        /\ run.ran = 1 =>
             /\ run.consumes >= 1
             /\ run.result.allowed
             /\ run.pc \in {"operation", "done"}
        /\ run.pc = "operation" => run.ran = 1
        /\ (run.pc = "done" /\ run.error = "RateLimitError") =>
             /\ run.ran = 0
             /\ ~run.result.allowed

\* a limitWithRetry has finished its operation, invoked once after a denied
\* and an allowed attempt, and a limit has ended with RateLimitError
C38_Witness ==
  \E p \in Calling("limitWithRetry"), q \in Calling("limit") :
    /\ runs[p].pc = "done"
    /\ runs[p].ran = 1
    /\ runs[p].consumes = 2
    /\ runs[q].pc = "done"
    /\ runs[q].error = "RateLimitError"
    /\ runs[q].ran = 0

(* ----------------------- when the operation fails ----------------------- *)
\* C39: when the operation of limit or limitWithRetry ends, the call ends as
\* it did: an error of the operation is the error of the call; the call
\* consumes, sleeps and attempts nothing more, and the bucket is left as the
\* consume left it, the token is not given back
C39_OperationErrorPropagates ==
  [][\A p \in Procs :
       /\ (runs[p].pc = "operation" /\ runs'[p] # runs[p]) =>
            /\ runs'[p].pc = "done"
            /\ runs'[p].end \in OperationEnds
            /\ runs'[p].end = "threw" => runs'[p].error = "OperationError"
            /\ runs'[p].end = "returned" => runs'[p].error = NoError
            /\ runs'[p].consumes = runs[p].consumes
            /\ runs'[p].slept = runs[p].slept
            /\ runs'[p].attempts = runs[p].attempts
            /\ state' = state
       /\ (runs[p].pc = "done" /\ runs'[p] # runs[p]) =>
            runs'[p].consumes = 0]_vars

\* the operation of a limitWithRetry that had retries left has failed at the
\* time of its consume: the call has ended with the operation's error after
\* one attempt, and the bucket is without the token
C39_Witness ==
  \E p \in Calling("limitWithRetry") :
    /\ runs[p].pc = "done"
    /\ runs[p].end = "threw"
    /\ runs[p].error = "OperationError"
    /\ runs[p].maxRetries >= 1
    /\ runs[p].consumes = 1
    /\ runs[p].attempts = 0
    /\ runs[p].at = now
    /\ state.buckets[runs[p].key].tokens = FromInt(cfg.requests - 1)

(* ------------------ limitWithRetry with no other consumer --------------- *)
\* the call of limitWithRetry with maxRetries >= 1 that the one caller has
\* in progress
Retrying ==
  /\ runs[Sole].fn = "limitWithRetry"
  /\ runs[Sole].maxRetries >= 1
  /\ runs[Sole].pc \notin {"idle", "done"}

\* the call has invoked its operation once and ended as the operation did
RanAndEnded ==
  /\ runs[Sole].fn = "limitWithRetry"
  /\ runs[Sole].ran = 1
  /\ EndedAsOperation(runs[Sole])

\* C40: with no other consumer of the key, a limitWithRetry with maxRetries
\* >= 1 makes at most two attempts, the second one allowed after a wait of
\* retryAfter, never throws RateLimitError, and in the end runs the operation
\* and ends as the operation does
C40_SoleCallerSucceeds ==
  /\ [](runs[Sole].fn = "limitWithRetry" /\ runs[Sole].maxRetries >= 1 =>
          /\ runs[Sole].consumes <= 2
          /\ runs[Sole].slept <= 1
          /\ runs[Sole].error # "RateLimitError"
          /\ (runs[Sole].consumes = 2 /\ runs[Sole].pc \notin {"get", "set"}) =>
               runs[Sole].result.allowed)
  /\ Retrying ~> RanAndEnded

\* the call was denied, slept and has returned the value of its operation
\* after its second attempt
C40_Witness ==
  /\ runs[Sole].fn = "limitWithRetry"
  /\ runs[Sole].maxRetries >= 1
  /\ runs[Sole].pc = "done"
  /\ runs[Sole].consumes = 2
  /\ runs[Sole].slept = 1
  /\ runs[Sole].end = "returned"
  /\ runs[Sole].value = "value"

\* C40 on the numbers of the program: with no other consumer of the key, a
\* limitWithRetry with maxRetries >= 1 makes at most two attempts and never
\* throws RateLimitError
C40_TwoAttemptsSuffice ==
  runs[Sole].fn = "limitWithRetry" /\ runs[Sole].maxRetries >= 1 =>
    /\ runs[Sole].consumes <= 2
    /\ runs[Sole].error # "RateLimitError"
====
